---- MODULE Spec2Model ----
(***************************************************************************)
(* Runtime component pipeline of ui_maddness: the hot-replacement manager  *)
(* (DynamicHMRManager), the runtime compiler (RuntimeJSXCompiler), the     *)
(* panel registry (EnhancedPanelRegistry) and the code validator           *)
(* (CodeValidator).                                                        *)
(*                                                                         *)
(* Execution is single-threaded and cooperative: every action below is the *)
(* code that runs between two suspension points (await) of one call.       *)
(***************************************************************************)
EXTENDS Integers, Sequences, FiniteSets, TLC

\* ------------------------------------------------------------------------
\* Bounds of the model
\* ------------------------------------------------------------------------

\* number of updateComponent calls that can be suspended at the same time
MaxCalls == 2

\* total number of updateComponent invocations in one behaviour
MaxInvocations == 3

\* number of registry calls that can be suspended at the same time
MaxRegCalls == 2

\* total number of registerPanelFromJSX / updatePanel invocations
MaxRegInvocations == 3

\* total number of updateComponent and registry invocations when the
\* hot-replacement manager and the registry run together
MaxSystemInvocations == 3

\* number of generateComponent calls that can be suspended at the same time
MaxGenCalls == 1

\* total number of generateComponent invocations in one behaviour
MaxGenInvocations == 2

\* number of milliseconds the clock advances in one behaviour
MaxNow == 1

\* number of generateComponent invocations when one request is repeated
MaxRequests == 11

\* number of most recent validateJSX calls whose results are kept
LogWindow == 2

\* number of tokens of the validated source between its header and its export
MaxPayload == 2

\* number of times sanitizeCode is applied to its own output
MaxWraps == 3

\* ------------------------------------------------------------------------
\* Inputs
\* ------------------------------------------------------------------------

PanelIds == {"p1", "p2"}

\* JSX sources handed to the compiler: the empty source, a source of white
\* space, two sources that transpile and load, one that Babel rejects, one
\* that transpiles but whose module cannot be imported as a component
JsxSources == {"", "  ", "srcA", "srcB", "srcSyntaxError", "srcNoComponent"}

Calls == 1..MaxCalls

RegCalls == 1..MaxRegCalls

GenCalls == 1..MaxGenCalls

\* the registerPanelFromJSX call a generateComponent call awaits
GenSlot(g) == MaxRegCalls + g

GenRegCalls == {GenSlot(g) : g \in GenCalls}

AllRegCalls == RegCalls \cup GenRegCalls

NoPanel == "none"

VARIABLES
    componentCache,  \* DynamicHMRManager.componentCache : panelId -> entry
    updateQueue,     \* DynamicHMRManager.updateQueue : set of panelIds
    hmrCalls,        \* the suspended updateComponent calls
    hmrInvoked,      \* number of updateComponent invocations so far
    events,          \* CustomEvents dispatched on window, in order
    liveUrls,        \* blob URLs created and not yet revoked
    nextUrl,         \* the next blob URL URL.createObjectURL hands out
    urlInfo,         \* blob URL -> who created it and for which panel
    panels,          \* EnhancedPanelRegistry.panels : id -> definition
    panelOrder,      \* the keys of EnhancedPanelRegistry.panels, in Map order
    panelCache,      \* EnhancedPanelRegistry.componentCache : id -> entry
    regCalls,        \* the suspended registerPanelFromJSX / updatePanel calls
    regInvoked,      \* number of registry invocations so far
    finalizers,      \* FinalizationRegistry: the (component, id) registered
    notFound,        \* ids for which updatePanel threw `Panel id not found`
    lastIndex,       \* lastIndex of each RegExp of CodeValidator.forbiddenPatterns
    valLog,          \* the last validateJSX calls: input and result
    sanitizer,       \* the last sanitizeCode call: input, output, depth
    moduleBlob,      \* the last module text of createModuleBlob, evaluated
    isAvailable,     \* OllamaClient.isAvailable
    now,             \* Date.now(), counted from the load of the page
    generationHistory, \* AIComponentGenerator.generationHistory
    genCalls,        \* the suspended generateComponent calls
    genInvoked       \* number of generateComponent invocations so far

hmrVars == <<componentCache, updateQueue, hmrCalls, hmrInvoked>>

blobVars == <<liveUrls, nextUrl, urlInfo>>

regVars == <<panels, panelOrder, panelCache, regCalls, regInvoked, finalizers, notFound>>

valVars == <<lastIndex, valLog, sanitizer, moduleBlob>>

genVars == <<isAvailable, now, generationHistory, genCalls, genInvoked>>

vars == <<componentCache, updateQueue, hmrCalls, hmrInvoked, events,
          liveUrls, nextUrl, urlInfo, panels, panelOrder, panelCache, regCalls,
          regInvoked, finalizers, notFound, lastIndex, valLog, sanitizer,
          moduleBlob,
          isAvailable, now, generationHistory, genCalls, genInvoked>>

\* ------------------------------------------------------------------------
\* Maps (JavaScript Map)
\* ------------------------------------------------------------------------

EmptyMap == [k \in {} |-> 0]

MapSet(m, k, v) == [x \in (DOMAIN m) \cup {k} |-> IF x = k THEN v ELSE m[x]]

MapDelete(m, k) == [x \in (DOMAIN m) \ {k} |-> m[x]]

\* object spread {...base, ...overrides}: the keys of overrides win
Merge(base, overrides) ==
    [k \in (DOMAIN base) \cup (DOMAIN overrides) |->
        IF k \in DOMAIN overrides THEN overrides[k] ELSE base[k]]

\* a Map whose set moves an existing key to the end
KeysAfterSetMovesToEnd(keys, k) ==
    Append(SelectSeq(keys, LAMBDA x : x # k), k)

\* Map.prototype.keys() after set(k, v): a new key is appended, an existing
\* key keeps its place
KeysAfterSet(keys, k) ==
    IF \E i \in DOMAIN keys : keys[i] = k THEN keys ELSE Append(keys, k)

\* Map.prototype.keys() after delete(k)
KeysAfterDelete(keys, k) == SelectSeq(keys, LAMBDA x : x # k)

\* ------------------------------------------------------------------------
\* CodeValidator
\* ------------------------------------------------------------------------

\* A validated source is a sequence of lines (tokens): a component with an
\* import of React, a function component returning JSX, a default export,
\* and up to MaxPayload further lines in the function body.
PayloadTokens ==
    {"eval(x)", "new Function(x)", "<div/>", "{", "<p style={{margin: 0}}/>"}

SeqsUpTo(S, n) == UNION {[1..k -> S] : k \in 0..n}

Component(payload) ==
    <<"import React from 'react';", "function Panel() {">> \o payload \o
    <<"return <div/>; }", "export default Panel;">>

\* further import statements: a relative target, a target that is not
\* allowed as default and as named import, a side-effect import, a named
\* import written on three lines, an allowed sub-path of react
ImportTokens ==
    {"import helper from './helper';", "import fs from 'fs';",
     "import { readFile } from 'fs';", "import 'fs';",
     "import {\n  readFile\n} from 'fs';",
     "import { jsx } from 'react/jsx-runtime';"}

\* the component with one more import statement
WithImport(statement) ==
    <<"import React from 'react';", statement, "function Panel() {",
      "return <div/>; }", "export default Panel;">>

\* the component with its function exported inline
InlineExport ==
    <<"import React from 'react';", "export default function Panel() {",
      "return <div/>; }">>

ValidatorInputs ==
    {Component(pl) : pl \in SeqsUpTo(PayloadTokens, MaxPayload)}
    \cup {WithImport(s) : s \in ImportTokens} \cup {InlineExport}

\* number of characters of a line
TokLen(tok) ==
    CASE tok = "import React from 'react';" -> 26
      [] tok = "function Panel() {" -> 18
      [] tok = "return <div/>; }" -> 16
      [] tok = "export default Panel;" -> 21
      [] tok = "eval(x)" -> 7
      [] tok = "new Function(x)" -> 15
      [] tok = "<div/>" -> 6
      [] tok = "{" -> 1
      [] tok = "<p style={{margin: 0}}/>" -> 24
      [] tok = "import helper from './helper';" -> 30
      [] tok = "import fs from 'fs';" -> 20
      [] tok = "import { readFile } from 'fs';" -> 30
      [] tok = "import 'fs';" -> 12
      [] tok = "import {\n  readFile\n} from 'fs';" -> 32
      [] tok = "import { jsx } from 'react/jsx-runtime';" -> 40
      [] tok = "export default function Panel() {" -> 33

RECURSIVE SumLen(_)
SumLen(code) == IF code = <<>> THEN 0 ELSE TokLen(Head(code)) + SumLen(Tail(code))

\* code.length, the lines being joined by newlines
CodeLength(code) == IF code = <<>> THEN 0 ELSE SumLen(code) + Len(code) - 1

\* the number of { in a line
OpenIn(tok) ==
    CASE tok \in {"function Panel() {", "{", "import { readFile } from 'fs';",
                  "import {\n  readFile\n} from 'fs';",
                  "import { jsx } from 'react/jsx-runtime';",
                  "export default function Panel() {"} -> 1
      [] tok = "<p style={{margin: 0}}/>" -> 2
      [] OTHER -> 0

\* the number of } in a line
CloseIn(tok) ==
    CASE tok \in {"return <div/>; }", "import { readFile } from 'fs';",
                  "import {\n  readFile\n} from 'fs';",
                  "import { jsx } from 'react/jsx-runtime';"} -> 1
      [] tok = "<p style={{margin: 0}}/>" -> 2
      [] OTHER -> 0

\* (code.match(/\{/g) || []).length
RECURSIVE OpenBraces(_)
OpenBraces(code) ==
    IF code = <<>> THEN 0 ELSE OpenIn(Head(code)) + OpenBraces(Tail(code))

\* (code.match(/\}/g) || []).length
RECURSIVE CloseBraces(_)
CloseBraces(code) ==
    IF code = <<>> THEN 0 ELSE CloseIn(Head(code)) + CloseBraces(Tail(code))

\* this.forbiddenPatterns: the source of each RegExp, all with flags gi
ForbiddenPatterns ==
    << "eval\\s*\\(", "Function\\s*\\(", "document\\.write", "innerHTML\\s*=",
       "outerHTML\\s*=", "window\\.parent", "window\\.top", "window\\.frames",
       "parent\\.", "top\\.", "\\.contentWindow", "postMessage", "fetch\\s*\\(",
       "XMLHttpRequest", "localStorage", "sessionStorage", "document\\.cookie",
       "<script[\\s\\S]*?>", "<iframe[\\s\\S]*?>", "<object[\\s\\S]*?>",
       "<embed[\\s\\S]*?>", "<link[\\s\\S]*?>", "<meta[\\s\\S]*?>",
       "javascript:", "data:text\\/html", "vbscript:", "on\\w+\\s*=",
       "setInterval", "setTimeout.*eval", "new\\s+Function", "import\\s*\\(",
       "require\\s*\\(", "global\\.", "process\\.", "Buffer\\.", "__dirname",
       "__filename" >>

NumPatterns == Len(ForbiddenPatterns)

\* the forbidden patterns that match inside a line
PatternsIn(tok) ==
    CASE tok = "eval(x)" -> {1}
      [] tok = "new Function(x)" -> {2, 30}
      [] OTHER -> {}

\* the lines of code in which pattern i matches at or after offset `from`
\* (offsets count lines: a match in line k starts at or after k-1, ends by k)
MatchesFrom(i, code, from) ==
    {k \in DOMAIN code : k - 1 >= from /\ i \in PatternsIn(code[k])}

Min(S) == CHOOSE x \in S : \A y \in S : x <= y

\* RegExp.prototype.test of a global RegExp whose lastIndex is `from`: the
\* search starts at lastIndex
RegExpTest(i, code, from) == MatchesFrom(i, code, from) # {}

\* lastIndex after that test: the end of the match, or 0 when none was found
RegExpLastIndex(i, code, from) ==
    IF MatchesFrom(i, code, from) # {} THEN Min(MatchesFrom(i, code, from))
    ELSE 0

\* String.prototype.includes / a test by a RegExp without the g flag
Contains(code, toks) == \E k \in DOMAIN code : code[k] \in toks

\* the lines in which /export\s+default/ matches
ExportDefaultTokens ==
    {"export default Panel;", "export default function Panel() {",
     "export default SafeComponent;"}

\* validateBasicStructure: the errors it pushes, in order (the parentheses
\* of every modelled line are balanced)
validateBasicStructure(code) ==
    (IF CodeLength(code) < 20
     THEN <<"Code is too short to be a valid component">> ELSE <<>>)
    \o (IF CodeLength(code) > 50000
        THEN <<"Code is too long (>50KB)">> ELSE <<>>)
    \o (IF ~Contains(code, {"import React from 'react';"})
        THEN <<"Missing required pattern: import\\s+React">> ELSE <<>>)
    \o (IF ~Contains(code, ExportDefaultTokens)
        THEN <<"Missing required pattern: export\\s+default">> ELSE <<>>)
    \o (IF OpenBraces(code) # CloseBraces(code)
        THEN <<"Unbalanced braces in code">> ELSE <<>>)

\* the indexes of the patterns whose test succeeds, in pattern order
RECURSIVE ForbiddenFrom(_, _, _)
ForbiddenFrom(i, code, last) ==
    IF i > NumPatterns THEN <<>>
    ELSE (IF RegExpTest(i, code, last[i])
          THEN <<"Forbidden pattern detected: " \o ForbiddenPatterns[i]>>
          ELSE <<>>) \o ForbiddenFrom(i + 1, code, last)

\* checkForbiddenPatterns: the errors it pushes when the RegExps have the
\* lastIndex values `last`
checkForbiddenPatterns(code, last) == ForbiddenFrom(1, code, last)

\* the lastIndex values checkForbiddenPatterns leaves behind
LastIndexAfter(code, last) ==
    [i \in 1..NumPatterns |-> RegExpLastIndex(i, code, last[i])]

\* this.allowedImports
allowedImports ==
    {"react", "react-dom", "react/jsx-runtime", "react-error-boundary"}

\* match[1] of /import\s+.*?\s+from\s+['"]([^'"]+)['"];?/g in a line, ""
\* when the line has no match: `.` does not match a line terminator, so an
\* import clause written on several lines has none, and neither has an
\* import without a from clause
ImportPath(tok) ==
    CASE tok = "import React from 'react';" -> "react"
      [] tok = "import helper from './helper';" -> "./helper"
      [] tok \in {"import fs from 'fs';", "import { readFile } from 'fs';"} -> "fs"
      [] tok = "import { jsx } from 'react/jsx-runtime';" -> "react/jsx-runtime"
      [] tok = "import { ErrorBoundary } from 'react-error-boundary';"
            -> "react-error-boundary"
      [] OTHER -> ""

\* importPath.startsWith(prefix), over the import paths
StartsWith(importPath, prefix) ==
    \/ prefix = "react/" /\ importPath = "react/jsx-runtime"
    \/ prefix = "./" /\ importPath = "./helper"

isImportAllowed(importPath) ==
    importPath \in allowedImports \/ StartsWith(importPath, "react/")

\* validateImports: the errors it pushes, in the order of the matches
RECURSIVE validateImports(_)
validateImports(code) ==
    IF code = <<>> THEN <<>>
    ELSE (IF ImportPath(Head(code)) # "" /\ ~isImportAllowed(ImportPath(Head(code)))
          THEN <<"Unauthorized import: " \o ImportPath(Head(code))>> ELSE <<>>)
         \o validateImports(Tail(code))

\* validateImports: the warnings it pushes
RECURSIVE ImportWarnings(_)
ImportWarnings(code) ==
    IF code = <<>> THEN <<>>
    ELSE (IF StartsWith(ImportPath(Head(code)), "./")
               \/ StartsWith(ImportPath(Head(code)), "../")
          THEN <<"Relative import detected: " \o ImportPath(Head(code))>>
          ELSE <<>>)
         \o ImportWarnings(Tail(code))

\* the lines in which the function component pattern matches
FunctionComponentTokens ==
    {"function Panel() {", "export default function Panel() {"}

\* validateComponentStructure: the errors it pushes (no modelled line has a
\* class component)
validateComponentStructure(code) ==
    (IF ~Contains(code, FunctionComponentTokens)
     THEN <<"No valid React component definition found">> ELSE <<>>)
    \o (IF ~Contains(code, {"return <div/>; }"})
             \/ ~Contains(code, {"return <div/>; }", "<div/>",
                                 "<p style={{margin: 0}}/>"})
        THEN <<"Component must return JSX">> ELSE <<>>)

\* validateComponentStructure: the warnings it pushes. The component name is
\* taken from the leftmost match of `function Name`, `const Name =` or
\* `export default Name`: for the inline export that is the word `function`
StructureWarnings(code) ==
    IF Contains(code, {"export default function Panel() {"})
    THEN <<"Component name should be PascalCase: function">>
    ELSE <<>>

\* validateReactPatterns: the warnings it pushes (no modelled line calls a
\* hook or map)
validateReactPatterns(code) ==
    IF Contains(code, {"<p style={{margin: 0}}/>"})
    THEN <<"Inline styles detected - prefer Tailwind CSS classes">>
    ELSE <<>>

\* the message of the SyntaxError that `new RegExp('\\b?\\b', 'g')` throws
RegExpSyntaxError ==
    "SyntaxError: Invalid regular expression: /\\b?\\b/: Nothing to repeat"

\* a validateSizeAndComplexity that returns
validateSizeAndComplexityReturns(code) == [warnings |-> <<>>, thrown |-> ""]

\* validateSizeAndComplexity: the warnings it pushes and the error it
\* throws. No modelled source has more than 200 lines. The loop over
\* complexityKeywords builds new RegExp(`\\b${keyword}\\b`, 'g') for each
\* keyword; for the last keyword, '?', the pattern is \b?\b, a quantifier
\* after an assertion, which is a syntax error of the pattern, so that the
\* constructor throws on every call whatever the code is
validateSizeAndComplexity(code) ==
    [warnings |-> <<>>, thrown |-> RegExpSyntaxError]

\* the name captured by /export\s+default\s+(\w+);?$/m in a line, "" when
\* the line has no match
ExportedName(tok) ==
    CASE tok = "export default Panel;" -> "Panel"
      [] tok = "export default SafeComponent;" -> "SafeComponent"
      [] OTHER -> ""

\* the wrapper around the component that is named
SafeComponent(originalComponent) ==
    "const SafeComponent = (props) => (<ErrorBoundary><" \o originalComponent
    \o " {...props} /></ErrorBoundary>);"

\* wrapWithErrorBoundary: the first `export default Name;` line is replaced
RECURSIVE wrapWithErrorBoundary(_)
wrapWithErrorBoundary(code) ==
    IF code = <<>> THEN <<>>
    ELSE IF ExportedName(Head(code)) # ""
    THEN <<"const Original" \o ExportedName(Head(code)) \o " = "
              \o ExportedName(Head(code)) \o ";",
           SafeComponent("Original" \o ExportedName(Head(code))),
           "export default SafeComponent;">> \o Tail(code)
    ELSE <<Head(code)>> \o wrapWithErrorBoundary(Tail(code))

\* sanitizeCode: wrap, then add the imports when ErrorBoundary is not imported
sanitizeCode(code) ==
    IF Contains(wrapWithErrorBoundary(code),
                {"import { ErrorBoundary } from 'react-error-boundary';"})
    THEN wrapWithErrorBoundary(code)
    ELSE <<"import React from 'react';",
           "import { ErrorBoundary } from 'react-error-boundary';">>
         \o wrapWithErrorBoundary(code)

\* the errors validateJSX accumulates
ValidationErrors(code, last) ==
    validateBasicStructure(code) \o checkForbiddenPatterns(code, last)
    \o validateImports(code) \o validateComponentStructure(code)

\* the warnings validateJSX accumulates
ValidationWarnings(code) ==
    ImportWarnings(code) \o StructureWarnings(code)
    \o validateReactPatterns(code) \o validateSizeAndComplexity(code).warnings

\* the result of validateJSX(code) when the RegExps have lastIndex `last`:
\* the result of the catch block when a check has thrown
validateJSX(code, last) ==
    IF validateSizeAndComplexity(code).thrown # ""
    THEN [isValid |-> FALSE,
          errors |-> <<"Validation error: "
                          \o validateSizeAndComplexity(code).thrown>>,
          warnings |-> ValidationWarnings(code), sanitizedCode |-> <<>>]
    ELSE IF ValidationErrors(code, last) # <<>>
    THEN [isValid |-> FALSE, errors |-> ValidationErrors(code, last),
          warnings |-> ValidationWarnings(code), sanitizedCode |-> <<>>]
    ELSE [isValid |-> TRUE, errors |-> <<>>,
          warnings |-> ValidationWarnings(code),
          sanitizedCode |-> sanitizeCode(code)]

LastOf(log, n) == IF Len(log) <= n THEN log ELSE SubSeq(log, Len(log) - n + 1, Len(log))

\* one call of validateJSX on the shared validator
Validate(code) ==
    /\ valLog' = LastOf(Append(valLog, [code |-> code,
                                        result |-> validateJSX(code, lastIndex)]),
                        LogWindow)
    /\ lastIndex' = LastIndexAfter(code, lastIndex)
    /\ UNCHANGED <<sanitizer, moduleBlob, events, blobVars, hmrVars, regVars,
                   genVars>>

NoSanitizeCall == [code |-> <<>>, sanitized |-> <<>>, depth |-> 0]

\* sanitizeCode(code)
Sanitize(code) ==
    /\ sanitizer' = [code |-> code, sanitized |-> sanitizeCode(code),
                     depth |-> 1]
    /\ UNCHANGED <<lastIndex, valLog, moduleBlob, events, blobVars, hmrVars,
                   regVars, genVars>>

\* sanitizeCode applied to the code the last sanitizeCode returned
SanitizeAgain ==
    /\ sanitizer.depth \in 1..(MaxWraps - 1)
    /\ sanitizer' = [code |-> sanitizer.sanitized,
                     sanitized |-> sanitizeCode(sanitizer.sanitized),
                     depth |-> sanitizer.depth + 1]
    /\ UNCHANGED <<lastIndex, valLog, moduleBlob, events, blobVars, hmrVars,
                   regVars, genVars>>

\* ------------------------------------------------------------------------
\* OllamaClient and AIComponentGenerator: requests, texts and messages
\* ------------------------------------------------------------------------

\* request.prompt: a prompt of plain words, and one with a brace
Prompts == {"todo list", "show {count"}

\* the prompt can stand as the text of a JSX element
IsJsxText(prompt) == prompt # "show {count"

\* simpleHash(prompt): the 32-bit rolling hash, in hexadecimal
simpleHash(str) ==
    CASE str = "todo list" -> "5d0c8bc8"
      [] str = "show {count" -> "283d0bf7"

\* generatePanelId(prompt) when Date.now() is `timestamp`
generatePanelId(prompt, timestamp) ==
    "ai-panel-" \o simpleHash(prompt) \o "-170000000000" \o ToString(timestamp)

\* the lines of a text, joined by `sep`
RECURSIVE Join(_, _)
Join(lines, sep) ==
    IF lines = <<>> THEN ""
    ELSE IF Len(lines) = 1 THEN Head(lines)
    ELSE Head(lines) \o sep \o Join(Tail(lines), sep)

\* the source text that is made of the lines
Text(lines) == Join(lines, "\n")

\* the code extractJSXFromResponse finds in a response of the model: a
\* component, one with an unbalanced brace, one that calls eval
GeneratedCodes == {Component(<<>>), Component(<<"{">>), Component(<<"eval(x)">>)}

\* `${error}` of a callOllamaAPI that throws: the 30 s timeout, a response
\* that is not ok
OllamaFailures ==
    {"TimeoutError: signal timed out",
     "Error: Ollama API error: 500 Internal Server Error"}

\* OllamaClient.validateGeneratedCode: the message of the error it throws,
\* "" when it returns
validateGeneratedCode(code) ==
    IF ~Contains(code, {"import React from 'react';"})
    THEN "Generated code must import React"
    ELSE IF ~Contains(code, {"export default Panel;"})
    THEN "Generated code must have a default export"
    ELSE IF Contains(code, {"eval(x)"})
    THEN "Generated code contains forbidden pattern: eval\\s*\\("
    ELSE IF Contains(code, {"new Function(x)"})
    THEN "Generated code contains forbidden pattern: Function\\s*\\("
    ELSE IF CodeLength(code) < 50
    THEN "Generated code appears to be too short"
    ELSE IF CodeLength(code) > 10000
    THEN "Generated code is too long (>10KB)"
    ELSE ""

NotAvailableMessage ==
    "AI service is not available. Please ensure Ollama is running."

\* the message of the error OllamaClient.generateComponent rethrows
GenerationFailedMessage(reason) == "Component generation failed: " \o reason

\* the message of the error thrown for a validation result that is not valid
ValidationFailedMessage(errors) ==
    "Code validation failed: " \o Join(errors, ", ")

\* the message of the error registerPanelFromJSX throws
RegistrationFailedMessage(outcome, error) ==
    IF outcome = "CompileError" THEN "Compilation failed: " \o error
    ELSE "Component loading failed"

\* createFallbackComponent(prompt, errorMessage): prompt and message are
\* pasted into the JSX of the placeholder
createFallbackComponent(prompt, errorMessage) ==
    Text(<<"import React from 'react';",
           "const FallbackComponent = () => {",
           "return (<div><p><strong>Request:</strong> " \o prompt \o "</p>",
           "<p><strong>Error:</strong> " \o errorMessage \o "</p></div>);",
           "};",
           "export default FallbackComponent;">>)

\* the messages of the errors generateComponent can catch
ErrorMessages ==
    {NotAvailableMessage}
    \cup {GenerationFailedMessage(r) : r \in OllamaFailures}
    \cup {GenerationFailedMessage("Error: " \o validateGeneratedCode(c)) :
            c \in GeneratedCodes}
    \cup {ValidationFailedMessage(validateJSX(c, [i \in 1..NumPatterns |-> 0]).errors) :
            c \in GeneratedCodes}
    \cup {RegistrationFailedMessage(o, e) :
            o \in {"CompileError", "LoadError"},
            e \in {"SyntaxError", "JSX code cannot be empty"}}

\* the placeholder sources that are well-formed JSX
FallbackSources ==
    {createFallbackComponent(p, m) :
        p \in {q \in Prompts : IsJsxText(q)}, m \in ErrorMessages}

\* ------------------------------------------------------------------------
\* RuntimeJSXCompiler
\* ------------------------------------------------------------------------

\* jsxCode.trim()
Trim(jsxCode) == IF jsxCode = "  " THEN "" ELSE jsxCode

\* !jsxCode.trim()
TrimIsEmpty(jsxCode) == Trim(jsxCode) = ""

\* babel.transform returns code (instead of throwing a syntax error); it
\* throws on the sanitized code of a generated component, which declares
\* React twice (sanitizeCode puts the import in front of a source that
\* imports React already)
BabelTransforms(jsxCode) ==
    jsxCode \in {"srcA", "srcB", "srcNoComponent"} \cup FallbackSources

\* the code babel.transform produces
BabelCode(jsxCode) == <<"js", jsxCode>>

\* import() of the module resolves to a module whose default is a function;
\* the module of a source with a default export of its own has two default
\* exports (createModuleBlob appends one) and is rejected
ModuleLoads(jsxCode) == jsxCode \in {"srcA", "srcB"}

NoResult == [success |-> FALSE, code |-> <<>>, moduleUrl |-> 0, error |-> ""]

\* compileComponent(jsxCode, componentName), url being the URL that
\* createModuleBlob would obtain from URL.createObjectURL
compileComponent(jsxCode, url) ==
    IF TrimIsEmpty(jsxCode)
    THEN [success |-> FALSE, code |-> <<>>, moduleUrl |-> 0,
          error |-> "JSX code cannot be empty"]
    ELSE IF ~BabelTransforms(jsxCode)
    THEN [success |-> FALSE, code |-> <<>>, moduleUrl |-> 0,
          error |-> "SyntaxError"]
    ELSE [success |-> TRUE, code |-> BabelCode(jsxCode), moduleUrl |-> url,
          error |-> ""]

\* a compiler that creates the module blob twice
BlobsAfterCompileTwice(live, jsxCode, componentName, by) ==
    IF compileComponent(jsxCode, nextUrl).success
    THEN /\ liveUrls' = live \cup {nextUrl, nextUrl + 1}
         /\ nextUrl' = nextUrl + 2
         /\ urlInfo' = MapSet(MapSet(urlInfo, nextUrl,
                                     [panel |-> componentName, by |-> by]),
                              nextUrl + 1, [panel |-> componentName, by |-> by])
    ELSE /\ liveUrls' = live
         /\ UNCHANGED <<nextUrl, urlInfo>>

\* a compiler that creates the module blob before it checks the source
BlobsAfterCompileAlways(live, jsxCode, componentName, by) ==
    /\ liveUrls' = live \cup {nextUrl}
    /\ nextUrl' = nextUrl + 1
    /\ urlInfo' = MapSet(urlInfo, nextUrl, [panel |-> componentName, by |-> by])

\* the blob store after compileComponent(jsxCode, componentName) called by
\* component `by`: createModuleBlob registers one new URL on success
BlobsAfterCompile(live, jsxCode, componentName, by) ==
    IF compileComponent(jsxCode, nextUrl).success
    THEN /\ liveUrls' = live \cup {nextUrl}
         /\ nextUrl' = nextUrl + 1
         /\ urlInfo' = MapSet(urlInfo, nextUrl,
                              [panel |-> componentName, by |-> by])
    ELSE /\ liveUrls' = live
         /\ UNCHANGED <<nextUrl, urlInfo>>

\* top-level names that compiled code may declare
TopLevelNames == {"Component", "FallbackComponent", "p1", "panel"}

\* compiled code as the module text of createModuleBlob embeds it: the
\* top-level names it declares and whether it has an export default
\* statement of its own (Babel's react preset leaves module syntax alone)
CompiledCodes == [declares : SUBSET TopLevelNames, exportsDefault : BOOLEAN]

\* componentName arguments, split at the hyphens: the callers pass the panel
\* id, and generatePanelId makes ids of the form ai-panel-<hash>-<time>
ComponentNames ==
    {<<"p1">>, <<"FallbackComponent">>, <<"my", "panel">>,
     <<"ai", "panel", "k3", "1">>}

\* the part is a numeric literal
IsNumber(part) == part \in {"1"}

\* evaluating the part as an expression throws a ReferenceError
Throws(part, declares) == ~IsNumber(part) /\ part \notin declares

\* the value of
\*   typeof ${componentName} !== 'undefined' ? ${componentName} :
\*   typeof Component !== 'undefined' ? Component : (() => ...)
\* With a hyphen in componentName the test is (typeof a) - b - c !==
\* 'undefined', a number compared with a string, whose operands b, c are
\* evaluated; the consequent a - b - c is a number (NaN or not)
ComponentToExport(declares, componentName) ==
    IF Len(componentName) = 1
    THEN IF componentName[1] \in declares THEN componentName[1]
         ELSE IF "Component" \in declares THEN "Component"
         ELSE "placeholder"
    ELSE IF \E k \in DOMAIN componentName :
               Throws(componentName[k], declares)
         THEN "ReferenceError"
         ELSE "number"

\* what import() of the module text yields as module.default, or the error
\* it rejects with: two export default statements are a SyntaxError
ModuleDefault(compiledCode, componentName) ==
    IF compiledCode.exportsDefault
    THEN "SyntaxError"
    ELSE ComponentToExport(compiledCode.declares, componentName)

NoModuleBlob ==
    [compiledCode |-> [declares |-> {}, exportsDefault |-> FALSE],
     componentName |-> <<>>, default |-> "none"]

\* createModuleBlob(compiledCode, componentName), and the import of its URL
createModuleBlob(compiledCode, componentName) ==
    /\ moduleBlob' = [compiledCode |-> compiledCode,
                      componentName |-> componentName,
                      default |-> ModuleDefault(compiledCode, componentName)]
    /\ UNCHANGED <<lastIndex, valLog, sanitizer, events, blobVars, hmrVars,
                   regVars, genVars>>

\* cleanupModuleUrl(moduleUrl): URL.revokeObjectURL
cleanupModuleUrl(live, moduleUrl) == live \ {moduleUrl}

\* the `if (cache?.moduleUrl) cleanupModuleUrl(cache.moduleUrl)` idiom
CleanupCached(live, cache, id) ==
    IF id \in DOMAIN cache
    THEN cleanupModuleUrl(live, cache[id].moduleUrl)
    ELSE live

\* loadComponentFromUrl / loadComponent: the import of the blob URL
\* resolves and its default export is a function
LoadSucceeds(jsxCode, moduleUrl) ==
    moduleUrl \in liveUrls /\ ModuleLoads(jsxCode)

\* ------------------------------------------------------------------------
\* DynamicHMRManager
\* ------------------------------------------------------------------------

\* a CustomEvent dispatched on window: its name and its detail
Event(type, panelId, jsxCode, error) ==
    [type |-> type, panelId |-> panelId, jsxCode |-> jsxCode, error |-> error]

IdleCall == [pc |-> "idle", id |-> NoPanel, src |-> "", res |-> NoResult]

\* the slot a new suspended call occupies
FreeSlot(calls, slots) ==
    CHOOSE c \in slots :
        /\ calls[c].pc = "idle"
        /\ \A d \in slots : calls[d].pc = "idle" => c <= d

HasFreeSlot(calls, slots) == \E c \in slots : calls[c].pc = "idle"

CacheEntry(res) ==
    [component |-> res.moduleUrl, moduleUrl |-> res.moduleUrl,
     compiledCode |-> res.code]

\* a finally block that forgets updateQueue.delete
QueueAfterFinallyKeeps(queue, panelId) == queue

\* the finally block of updateComponent
QueueAfterFinally(queue, panelId) == queue \ {panelId}

\* handleUpdateFailure: dispatches panel-hmr-error
handleUpdateFailure(evs, panelId, message) ==
    Append(evs, Event("panel-hmr-error", panelId, "", message))

\* triggerHotUpdate: dispatches panel-hmr-update
triggerHotUpdate(evs, panelId) ==
    Append(evs, Event("panel-hmr-update", panelId, "", <<>>))

CompileErrorMessage(res) == <<"Compilation failed", res.error>>

LoadErrorMessage == <<"Component loading failed">>

\* updateComponent called while panelId is in updateQueue: the early return
\* inside try, followed by the finally block
UpdateComponentDropped(panelId, newJSXCode) ==
    /\ hmrInvoked < MaxInvocations
    /\ panelId \in updateQueue
    /\ updateQueue' = QueueAfterFinally(updateQueue, panelId)
    /\ hmrInvoked' = hmrInvoked + 1
    /\ UNCHANGED <<componentCache, hmrCalls, events, blobVars, regVars,
                   valVars, genVars>>

\* updateComponent up to its first await: the queue check, updateQueue.add
\* and the synchronous body of compileComponent
UpdateComponentStart(panelId, newJSXCode) ==
    /\ hmrInvoked < MaxInvocations
    /\ panelId \notin updateQueue
    /\ HasFreeSlot(hmrCalls, Calls)
    /\ updateQueue' = updateQueue \cup {panelId}
    /\ hmrCalls' = [hmrCalls EXCEPT ![FreeSlot(hmrCalls, Calls)] =
                      [pc |-> "compile", id |-> panelId, src |-> newJSXCode,
                       res |-> compileComponent(newJSXCode, nextUrl)]]
    /\ BlobsAfterCompile(liveUrls, newJSXCode, panelId, "hmr")
    /\ hmrInvoked' = hmrInvoked + 1
    /\ UNCHANGED <<componentCache, events, regVars, valVars, genVars>>

\* the compile result arrives and is a failure: throw, catch, finally
UpdateComponentCompileFailed(c) ==
    /\ hmrCalls[c].pc = "compile"
    /\ ~hmrCalls[c].res.success
    /\ events' = handleUpdateFailure(events, hmrCalls[c].id,
                                     CompileErrorMessage(hmrCalls[c].res))
    /\ updateQueue' = QueueAfterFinally(updateQueue, hmrCalls[c].id)
    /\ hmrCalls' = [hmrCalls EXCEPT ![c] = IdleCall]
    /\ UNCHANGED <<componentCache, hmrInvoked, blobVars, regVars, valVars, genVars>>

\* the compile result arrives and is a success: the old module URL is
\* cleaned up and the import of the new one is started
UpdateComponentRelease(c) ==
    /\ hmrCalls[c].pc = "compile"
    /\ hmrCalls[c].res.success
    /\ liveUrls' = CleanupCached(liveUrls, componentCache, hmrCalls[c].id)
    /\ hmrCalls' = [hmrCalls EXCEPT ![c].pc = "load"]
    /\ UNCHANGED <<componentCache, updateQueue, hmrInvoked, events, nextUrl,
                   urlInfo, regVars, valVars, genVars>>

\* a failure path that drops the cached entry of the panel
UpdateComponentLoadFailedDropsCache(c) ==
    /\ hmrCalls[c].pc = "load"
    /\ ~LoadSucceeds(hmrCalls[c].src, hmrCalls[c].res.moduleUrl)
    /\ events' = handleUpdateFailure(events, hmrCalls[c].id, LoadErrorMessage)
    /\ updateQueue' = QueueAfterFinally(updateQueue, hmrCalls[c].id)
    /\ hmrCalls' = [hmrCalls EXCEPT ![c] = IdleCall]
    /\ componentCache' = MapDelete(componentCache, hmrCalls[c].id)
    /\ UNCHANGED <<hmrInvoked, blobVars, regVars, valVars, genVars>>

\* the import fails: throw, catch, finally
UpdateComponentLoadFailed(c) ==
    /\ hmrCalls[c].pc = "load"
    /\ ~LoadSucceeds(hmrCalls[c].src, hmrCalls[c].res.moduleUrl)
    /\ events' = handleUpdateFailure(events, hmrCalls[c].id, LoadErrorMessage)
    /\ updateQueue' = QueueAfterFinally(updateQueue, hmrCalls[c].id)
    /\ hmrCalls' = [hmrCalls EXCEPT ![c] = IdleCall]
    /\ UNCHANGED <<componentCache, hmrInvoked, blobVars, regVars, valVars, genVars>>

\* the import succeeds: componentCache.set, triggerHotUpdate, finally
UpdateComponentStore(c) ==
    /\ hmrCalls[c].pc = "load"
    /\ LoadSucceeds(hmrCalls[c].src, hmrCalls[c].res.moduleUrl)
    /\ componentCache' = MapSet(componentCache, hmrCalls[c].id,
                                CacheEntry(hmrCalls[c].res))
    /\ events' = triggerHotUpdate(events, hmrCalls[c].id)
    /\ updateQueue' = QueueAfterFinally(updateQueue, hmrCalls[c].id)
    /\ hmrCalls' = [hmrCalls EXCEPT ![c] = IdleCall]
    /\ UNCHANGED <<hmrInvoked, blobVars, regVars, valVars, genVars>>

\* removeComponent(panelId)
RemoveComponent(panelId) ==
    /\ liveUrls' = CleanupCached(liveUrls, componentCache, panelId)
    /\ componentCache' = MapDelete(componentCache, panelId)
    /\ UNCHANGED <<updateQueue, hmrCalls, hmrInvoked, events, nextUrl,
                   urlInfo, regVars, valVars, genVars>>

\* getStats().pendingUpdates
PendingUpdates == Cardinality(updateQueue)

\* ------------------------------------------------------------------------
\* EnhancedPanelRegistry
\* ------------------------------------------------------------------------

\* a registry call slot: outcome is how the promise of the last call that
\* used the slot settled, prev the module URL cached for the panel when the
\* call was made (0 when there was none)
IdleRegCall(outcome) ==
    [pc |-> "idle", kind |-> "none", id |-> NoPanel, src |-> "",
     res |-> NoResult, prev |-> 0, outcome |-> outcome,
     metadata |-> EmptyMap, existing |-> EmptyMap]

CachedUrl(cache, id) == IF id \in DOMAIN cache THEN cache[id].moduleUrl ELSE 0

\* the import targets matched by /import\s+.*?\s+from\s+['"]([^'"]+)['"]/g:
\* srcA is a text with `import { useState } from 'react'`, srcB one with
\* that import and `import { LineChart } from 'recharts'`, the other
\* sources have no import
extractDependencies(jsxCode) ==
    IF jsxCode = "srcA" THEN <<"react">>
    ELSE IF jsxCode = "srcB" THEN <<"react", "recharts">>
    ELSE <<>>

\* the metadata arguments of the page: none, or a description with tags
\* and a creator
MetadataArgs ==
    {EmptyMap,
     [creator |-> "user", description |-> "a chart", tags |-> <<"chart">>]}

\* a registration whose own fields win over the metadata argument
PanelMetadataOwnFieldsWin(jsxCode, metadata) ==
    Merge(metadata,
          [createdAt |-> now, updatedAt |-> now, creator |-> "ai",
           dependencies |-> extractDependencies(jsxCode)])

\* the metadata of the PanelDefinition: the fields of registerPanelFromJSX,
\* then the spread of the metadata argument
PanelMetadata(jsxCode, metadata) ==
    Merge([createdAt |-> now, updatedAt |-> now, creator |-> "ai",
           dependencies |-> extractDependencies(jsxCode)],
          metadata)

\* the PanelDefinition built by registerPanelFromJSX
PanelDefinition(id, jsxCode, res, metadata) ==
    [id |-> id, jsxCode |-> jsxCode, compiledCode |-> res.code,
     component |-> res.moduleUrl,
     metadata |-> PanelMetadata(jsxCode, metadata)]

\* cleanup.register(component, id): the FinalizationRegistry of the
\* constructor calls cleanupPanel(id) after `component` has been collected
Registration(component, id) == [component |-> component, id |-> id]

\* the component is referenced by the registry (panels or componentCache)
HeldByRegistry(component) ==
    \/ \E id \in DOMAIN panels : panels[id].component = component
    \/ \E id \in DOMAIN panelCache : panelCache[id].component = component

\* registerPanelFromJSX(id, jsxCode) up to its first await: the synchronous
\* body of compileComponent
RegisterIn(c, id, jsxCode, metadata) ==
    /\ regCalls' = [regCalls EXCEPT ![c] =
                      [pc |-> "compile", kind |-> "register", id |-> id,
                       src |-> jsxCode,
                       res |-> compileComponent(jsxCode, nextUrl),
                       prev |-> CachedUrl(panelCache, id),
                       outcome |-> "pending",
                       metadata |-> metadata, existing |-> EmptyMap]]
    /\ BlobsAfterCompile(liveUrls, jsxCode, id, "registry")

\* registerPanelFromJSX(id, jsxCode, metadata) called by the page
RegisterStart(id, jsxCode, metadata) ==
    /\ regInvoked < MaxRegInvocations
    /\ HasFreeSlot(regCalls, RegCalls)
    /\ RegisterIn(FreeSlot(regCalls, RegCalls), id, jsxCode, metadata)
    /\ regInvoked' = regInvoked + 1
    /\ UNCHANGED <<finalizers, notFound, panels, panelOrder, panelCache, events, hmrVars, valVars, genVars>>

\* an updatePanel that compiles the new source before it looks up the panel
UpdatePanelNotFoundCompilesFirst(id, jsxCode) ==
    /\ regInvoked < MaxRegInvocations
    /\ id \notin DOMAIN panels
    /\ BlobsAfterCompile(liveUrls, jsxCode, id, "registry")
    /\ notFound' = notFound \cup {id}
    /\ regInvoked' = regInvoked + 1
    /\ UNCHANGED <<finalizers, panels, panelOrder, panelCache, regCalls, events, hmrVars,
                   valVars, genVars>>

\* updatePanel(id, jsxCode) on an id without panel: throws
UpdatePanelNotFound(id, jsxCode) ==
    /\ regInvoked < MaxRegInvocations
    /\ id \notin DOMAIN panels
    /\ notFound' = notFound \cup {id}
    /\ regInvoked' = regInvoked + 1
    /\ UNCHANGED <<finalizers, panels, panelOrder, panelCache, regCalls, events, blobVars,
                   hmrVars, valVars, genVars>>

\* updatePanel(id, jsxCode) up to the first await: the old module URL is
\* cleaned up, then registerPanelFromJSX(id, jsxCode,
\* {...existingPanel.metadata, updatedAt: new Date()}) runs up to its first
\* await
UpdatePanelStart(id, jsxCode) ==
    /\ regInvoked < MaxRegInvocations
    /\ id \in DOMAIN panels
    /\ HasFreeSlot(regCalls, RegCalls)
    /\ regCalls' = [regCalls EXCEPT ![FreeSlot(regCalls, RegCalls)] =
                      [pc |-> "compile", kind |-> "update", id |-> id,
                       src |-> jsxCode,
                       res |-> compileComponent(jsxCode, nextUrl),
                       prev |-> CachedUrl(panelCache, id),
                       outcome |-> "pending",
                       metadata |-> Merge(panels[id].metadata,
                                          [updatedAt |-> now]),
                       existing |-> panels[id].metadata]]
    /\ BlobsAfterCompile(CleanupCached(liveUrls, panelCache, id), jsxCode, id,
                         "registry")
    /\ regInvoked' = regInvoked + 1
    /\ UNCHANGED <<finalizers, notFound, panels, panelOrder, panelCache, events, hmrVars, valVars, genVars>>

\* the compile result is a failure: registerPanelFromJSX throws, and so
\* does the updatePanel that awaits it
RegisterCompileFailed(c) ==
    /\ regCalls[c].pc = "compile"
    /\ ~regCalls[c].res.success
    /\ regCalls' = [regCalls EXCEPT ![c] = IdleRegCall("CompileError")]
    /\ UNCHANGED <<finalizers, notFound, panels, panelOrder, panelCache, regInvoked, events, blobVars, hmrVars,
                   valVars, genVars>>

\* a registration that publishes the panel definition before the import
RegisterLoadStartPublishesEarly(c) ==
    /\ regCalls[c].pc = "compile"
    /\ regCalls[c].res.success
    /\ regCalls' = [regCalls EXCEPT ![c].pc = "load"]
    /\ panels' = MapSet(panels, regCalls[c].id,
                        PanelDefinition(regCalls[c].id, regCalls[c].src,
                                        regCalls[c].res,
                                        regCalls[c].metadata))
    /\ panelOrder' = KeysAfterSet(panelOrder, regCalls[c].id)
    /\ UNCHANGED <<finalizers, notFound, panelCache, regInvoked, events,
                   blobVars, hmrVars, valVars, genVars>>

\* the compile result is a success: loadComponent starts the import
RegisterLoadStart(c) ==
    /\ regCalls[c].pc = "compile"
    /\ regCalls[c].res.success
    /\ regCalls' = [regCalls EXCEPT ![c].pc = "load"]
    /\ UNCHANGED <<finalizers, notFound, panels, panelOrder, panelCache, regInvoked, events, blobVars, hmrVars,
                   valVars, genVars>>

\* the import fails: loadComponent throws, registerPanelFromJSX rethrows
RegisterLoadFailed(c) ==
    /\ regCalls[c].pc = "load"
    /\ ~LoadSucceeds(regCalls[c].src, regCalls[c].res.moduleUrl)
    /\ regCalls' = [regCalls EXCEPT ![c] = IdleRegCall("LoadError")]
    /\ UNCHANGED <<finalizers, notFound, panels, panelOrder, panelCache, regInvoked, events, blobVars, hmrVars,
                   valVars, genVars>>

\* the import succeeds: panels.set, componentCache.set and
\* cleanup.register(component, id); a plain registerPanelFromJSX returns, an
\* updatePanel still has to resume
RegisterStore(c) ==
    /\ regCalls[c].pc = "load"
    /\ LoadSucceeds(regCalls[c].src, regCalls[c].res.moduleUrl)
    /\ panels' = MapSet(panels, regCalls[c].id,
                        PanelDefinition(regCalls[c].id, regCalls[c].src,
                                        regCalls[c].res,
                                        regCalls[c].metadata))
    /\ panelOrder' = KeysAfterSet(panelOrder, regCalls[c].id)
    /\ panelCache' = MapSet(panelCache, regCalls[c].id,
                            CacheEntry(regCalls[c].res))
    /\ finalizers' = finalizers \cup {Registration(regCalls[c].res.moduleUrl,
                                                    regCalls[c].id)}
    /\ regCalls' = [regCalls EXCEPT ![c] =
                      IF regCalls[c].kind = "update"
                      THEN [regCalls[c] EXCEPT !.pc = "emit"]
                      ELSE IdleRegCall("ok")]
    /\ UNCHANGED <<notFound, regInvoked, events, blobVars, hmrVars, valVars, genVars>>

\* an emitHMRUpdate that dispatches the event twice
emitHMRUpdateTwice(evs, panelId, jsxCode) ==
    Append(Append(evs, Event("panel-hmr-update", panelId, jsxCode, <<>>)),
           Event("panel-hmr-update", panelId, jsxCode, <<>>))

\* emitHMRUpdate: dispatches panel-hmr-update with the new source
emitHMRUpdate(evs, panelId, jsxCode) ==
    Append(evs, Event("panel-hmr-update", panelId, jsxCode, <<>>))

\* updatePanel resumes after registerPanelFromJSX: emitHMRUpdate, return
UpdatePanelEmit(c) ==
    /\ regCalls[c].pc = "emit"
    /\ events' = emitHMRUpdate(events, regCalls[c].id, regCalls[c].src)
    /\ regCalls' = [regCalls EXCEPT ![c] = IdleRegCall("ok")]
    /\ UNCHANGED <<finalizers, notFound, panels, panelOrder, panelCache, regInvoked,
                   blobVars, hmrVars, valVars, genVars>>

\* a removal that forgets to revoke the module URL
RemovePanelKeepsUrl(id) ==
    /\ panels' = MapDelete(panels, id)
    /\ panelOrder' = KeysAfterDelete(panelOrder, id)
    /\ panelCache' = MapDelete(panelCache, id)
    /\ UNCHANGED <<finalizers, notFound, regCalls, regInvoked, events,
                   blobVars, hmrVars, valVars, genVars>>

\* a removal that forgets componentCache.delete
RemovePanelKeepsCache(id) ==
    /\ liveUrls' = CleanupCached(liveUrls, panelCache, id)
    /\ panels' = MapDelete(panels, id)
    /\ panelOrder' = KeysAfterDelete(panelOrder, id)
    /\ UNCHANGED <<panelCache, finalizers, notFound, regCalls, regInvoked,
                   events, nextUrl, urlInfo, hmrVars, valVars, genVars>>

\* removePanel(id)
RemovePanel(id) ==
    /\ liveUrls' = CleanupCached(liveUrls, panelCache, id)
    /\ panels' = MapDelete(panels, id)
    /\ panelOrder' = KeysAfterDelete(panelOrder, id)
    /\ panelCache' = MapDelete(panelCache, id)
    /\ UNCHANGED <<finalizers, notFound, regCalls, regInvoked, events, nextUrl,
                   urlInfo, hmrVars,
                   valVars, genVars>>

\* listPanels(): Array.from(this.panels.keys())
listPanels == panelOrder

\* getStats(): totalPanels and cachedComponents
getStats ==
    [totalPanels |-> Cardinality(DOMAIN panels),
     cachedComponents |-> Cardinality(DOMAIN panelCache)]

\* cleanupPanel(panelId): revokes the module URL cached for panelId now
cleanupPanel(live, panelId) == CleanupCached(live, panelCache, panelId)

\* the garbage collector has collected a component registered with panelId
\* that the registry no longer references; the FinalizationRegistry
\* callback runs
FinalizeComponent(panelId) ==
    /\ \E r \in finalizers :
          /\ r.id = panelId
          /\ ~HeldByRegistry(r.component)
          /\ finalizers' = finalizers \ {r}
    /\ liveUrls' = cleanupPanel(liveUrls, panelId)
    /\ UNCHANGED <<notFound, panels, panelOrder, panelCache, regCalls, regInvoked, events,
                   nextUrl, urlInfo, hmrVars, valVars, genVars>>

\* ------------------------------------------------------------------------
\* AIComponentGenerator
\* ------------------------------------------------------------------------

\* the number of attempts recordGenerationAttempt keeps for a panel
HistoryCap == 10

NoValidation ==
    [isValid |-> FALSE, errors |-> <<>>, warnings |-> <<>>,
     sanitizedCode |-> <<>>]

NoGenResult == [panelId |-> NoPanel, jsxCode |-> "", isFallback |-> FALSE]

\* a generateComponent call: code is the generated code, validation its
\* validation result, error the message of the caught error, failed whether
\* the generation itself failed, recorded the attempts the call has
\* recorded, fallbacks the number of placeholder registrations it started,
\* outcome and result how it ended
NewGenCall(prompt, panelId) ==
    [pc |-> "idle", prompt |-> prompt, panelId |-> panelId, code |-> <<>>,
     validation |-> NoValidation, error |-> "", failed |-> FALSE,
     recorded |-> <<>>, fallbacks |-> 0, outcome |-> "none",
     result |-> NoGenResult]

IdleGenCall == NewGenCall("", NoPanel)

\* a ComponentGenerationAttempt
Attempt(prompt, generatedCode, finalCode, success, error) ==
    [prompt |-> prompt, generatedCode |-> generatedCode,
     finalCode |-> finalCode, success |-> success, error |-> error,
     timestamp |-> now]

\* a recordGenerationAttempt that loses the attempt
recordGenerationAttemptDrops(history, panelId, attempt) == history

\* a recordGenerationAttempt that evicts the newest attempt
recordGenerationAttemptEvictsNewest(history, panelId, attempt) ==
    LET h == (IF panelId \in DOMAIN history THEN history[panelId] ELSE <<>>)
             \o <<attempt>>
    IN  MapSet(history, panelId,
               IF Len(h) > HistoryCap THEN SubSeq(h, 1, HistoryCap) ELSE h)

\* recordGenerationAttempt(panelId, attempt)
recordGenerationAttempt(history, panelId, attempt) ==
    LET h == (IF panelId \in DOMAIN history THEN history[panelId] ELSE <<>>)
             \o <<attempt>>
    IN  MapSet(history, panelId,
               IF Len(h) > HistoryCap
               THEN SubSeq(h, Len(h) - HistoryCap + 1, Len(h)) ELSE h)

\* emitGenerationEvent: dispatches ai-component-generated
emitGenerationEvent(evs, panelId, jsxCode) ==
    Append(evs, Event("ai-component-generated", panelId, jsxCode, <<>>))

\* extractTags(prompt): 'list' is a keyword of the tag table
extractTags(prompt) ==
    IF prompt = "todo list" THEN <<"table", "ai-generated">>
    ELSE <<"ai-generated">>

\* the metadata generateComponent registers generated code with (the
\* requests of the model have no panelType)
GeneratedMetadata(prompt) ==
    [creator |-> "ai", description |-> prompt, tags |-> extractTags(prompt)]

\* the metadata handleGenerationFailure registers the placeholder with
FallbackMetadata(prompt, message) ==
    [creator |-> "ai", description |-> "Fallback for: " \o prompt,
     tags |-> <<"fallback", "error">>, error |-> message]

\* the catch block of generateComponent followed by handleGenerationFailure
\* up to its await: the failed attempt is recorded and the registration of
\* the placeholder is started
CatchAndFallback(g, call, message, failed) ==
    /\ generationHistory' =
          recordGenerationAttempt(generationHistory, call.panelId,
              Attempt(call.prompt, <<>>, <<>>, FALSE, message))
    /\ RegisterIn(GenSlot(g), call.panelId,
                  createFallbackComponent(call.prompt, message),
                  FallbackMetadata(call.prompt, message))
    /\ genCalls' = [genCalls EXCEPT ![g] =
                      [call EXCEPT !.pc = "fallback", !.error = message,
                                   !.failed = failed,
                                   !.recorded = Append(@,
                                       Attempt(call.prompt, <<>>, <<>>, FALSE,
                                               message)),
                                   !.fallbacks = @ + 1]]
    /\ UNCHANGED <<panels, panelOrder, panelCache, regInvoked, finalizers, notFound,
                   events, hmrVars, valVars, isAvailable, now>>

\* checkAvailability settles: the service answers or it does not
CheckAvailability(ok) ==
    /\ isAvailable # ok
    /\ isAvailable' = ok
    /\ UNCHANGED <<now, generationHistory, genCalls, genInvoked, events,
                   blobVars, hmrVars, regVars, valVars>>

\* a millisecond passes
Tick ==
    /\ now < MaxNow
    /\ now' = now + 1
    /\ UNCHANGED <<isAvailable, generationHistory, genCalls, genInvoked,
                   events, blobVars, hmrVars, regVars, valVars>>

\* generateComponent(request) up to its first await: the panel id, the
\* availability check and the call of OllamaClient.generateComponent
GenerateStart(prompt) ==
    /\ HasFreeSlot(genCalls, GenCalls)
    /\ genInvoked' = genInvoked + 1
    /\ LET g == FreeSlot(genCalls, GenCalls)
           call == NewGenCall(prompt, generatePanelId(prompt, now))
       IN  IF ~isAvailable
           THEN CatchAndFallback(g, call, NotAvailableMessage, TRUE)
           ELSE /\ genCalls' = [genCalls EXCEPT ![g] =
                                  [call EXCEPT !.pc = "ollama"]]
                /\ UNCHANGED <<isAvailable, now, generationHistory, events,
                               blobVars, hmrVars, regVars, valVars>>

\* callOllamaAPI throws (timeout, response not ok): generateComponent of the
\* client rethrows and the generator catches
OllamaFails(g, reason) ==
    /\ genCalls[g].pc = "ollama"
    /\ CatchAndFallback(g, genCalls[g], GenerationFailedMessage(reason), TRUE)
    /\ UNCHANGED genInvoked

\* callOllamaAPI returns a response with `code` in it: the client checks it
\* with validateGeneratedCode and returns it or throws; the generator
\* resumes and either catches or calls validateJSX on the shared validator
OllamaResponds(g, code) ==
    /\ genCalls[g].pc = "ollama"
    /\ UNCHANGED genInvoked
    /\ IF validateGeneratedCode(code) # ""
       THEN CatchAndFallback(g, genCalls[g],
                GenerationFailedMessage("Error: " \o validateGeneratedCode(code)),
                TRUE)
       ELSE /\ genCalls' = [genCalls EXCEPT ![g] =
                              [genCalls[g] EXCEPT
                                  !.pc = "validate", !.code = code,
                                  !.validation = validateJSX(code, lastIndex)]]
            /\ valLog' = LastOf(Append(valLog,
                              [code |-> code,
                               result |-> validateJSX(code, lastIndex)]),
                              LogWindow)
            /\ lastIndex' = LastIndexAfter(code, lastIndex)
            /\ UNCHANGED <<sanitizer, moduleBlob, isAvailable, now,
                           generationHistory,
                           events, blobVars, hmrVars, regVars>>

\* a generator that registers the generated code whatever the result is
GenValidatedRegistersAnyway(g) ==
    /\ genCalls[g].pc = "validate"
    /\ UNCHANGED genInvoked
    /\ RegisterIn(GenSlot(g), genCalls[g].panelId, Text(genCalls[g].code),
                  GeneratedMetadata(genCalls[g].prompt))
    /\ genCalls' = [genCalls EXCEPT ![g].pc = "register"]
    /\ UNCHANGED <<panels, panelOrder, panelCache, regInvoked, finalizers, notFound,
                   events, hmrVars, valVars, isAvailable, now,
                   generationHistory>>

\* the validation result arrives: a result that is not valid is thrown and
\* caught, a valid one starts the registration of the sanitized code
GenValidated(g) ==
    /\ genCalls[g].pc = "validate"
    /\ UNCHANGED genInvoked
    /\ IF ~genCalls[g].validation.isValid
       THEN CatchAndFallback(g, genCalls[g],
                ValidationFailedMessage(genCalls[g].validation.errors), FALSE)
       ELSE /\ RegisterIn(GenSlot(g), genCalls[g].panelId,
                          Text(genCalls[g].validation.sanitizedCode),
                          GeneratedMetadata(genCalls[g].prompt))
            /\ genCalls' = [genCalls EXCEPT ![g].pc = "register"]
            /\ UNCHANGED <<panels, panelOrder, panelCache, regInvoked, finalizers,
                           notFound, events, hmrVars, valVars, isAvailable,
                           now, generationHistory>>

\* the registration of the generated component has settled: on success the
\* attempt is recorded, ai-component-generated is dispatched and the result
\* is returned; a failure is caught
GenAfterRegister(g) ==
    /\ genCalls[g].pc = "register"
    /\ regCalls[GenSlot(g)].pc = "idle"
    /\ UNCHANGED genInvoked
    /\ IF regCalls[GenSlot(g)].outcome = "ok"
       THEN /\ generationHistory' =
                 recordGenerationAttempt(generationHistory, genCalls[g].panelId,
                     Attempt(genCalls[g].prompt, genCalls[g].code,
                             genCalls[g].validation.sanitizedCode, TRUE, ""))
            /\ events' = emitGenerationEvent(events, genCalls[g].panelId,
                              Text(genCalls[g].validation.sanitizedCode))
            /\ genCalls' = [genCalls EXCEPT ![g] =
                   [genCalls[g] EXCEPT
                       !.pc = "idle", !.outcome = "returned",
                       !.recorded = Append(@,
                           Attempt(genCalls[g].prompt, genCalls[g].code,
                                   genCalls[g].validation.sanitizedCode,
                                   TRUE, "")),
                       !.result = [panelId |-> genCalls[g].panelId,
                                   jsxCode |->
                                     Text(genCalls[g].validation.sanitizedCode),
                                   isFallback |-> FALSE]]]
            /\ UNCHANGED <<isAvailable, now, blobVars, hmrVars, regVars,
                           valVars>>
       ELSE CatchAndFallback(g, genCalls[g],
                RegistrationFailedMessage(regCalls[GenSlot(g)].outcome,
                    compileComponent(
                        Text(genCalls[g].validation.sanitizedCode), 0).error),
                genCalls[g].failed)

\* the registration of the placeholder has settled: handleGenerationFailure
\* returns the placeholder, flagged as fallback, or throws
GenAfterFallback(g) ==
    /\ genCalls[g].pc = "fallback"
    /\ regCalls[GenSlot(g)].pc = "idle"
    /\ genCalls' = [genCalls EXCEPT ![g] =
          IF regCalls[GenSlot(g)].outcome = "ok"
          THEN [genCalls[g] EXCEPT
                   !.pc = "idle", !.outcome = "returned",
                   !.result = [panelId |-> genCalls[g].panelId,
                               jsxCode |-> createFallbackComponent(
                                   genCalls[g].prompt, genCalls[g].error),
                               isFallback |-> TRUE]]
          ELSE [genCalls[g] EXCEPT
                   !.pc = "idle", !.outcome = "thrown",
                   !.error = "Generation failed and fallback failed: "
                             \o genCalls[g].error]]
    /\ UNCHANGED <<isAvailable, now, generationHistory, genInvoked, events,
                   blobVars, hmrVars, regVars, valVars>>

\* ------------------------------------------------------------------------
\* Specifications
\* ------------------------------------------------------------------------

Init ==
    /\ componentCache = EmptyMap
    /\ updateQueue = {}
    /\ hmrCalls = [c \in Calls |-> IdleCall]
    /\ hmrInvoked = 0
    /\ events = <<>>
    /\ liveUrls = {}
    /\ nextUrl = 1
    /\ urlInfo = EmptyMap
    /\ panels = EmptyMap
    /\ panelOrder = <<>>
    /\ panelCache = EmptyMap
    /\ regCalls = [c \in AllRegCalls |-> IdleRegCall("none")]
    /\ regInvoked = 0
    /\ finalizers = {}
    /\ notFound = {}
    /\ lastIndex = [i \in 1..NumPatterns |-> 0]
    /\ valLog = <<>>
    /\ sanitizer = NoSanitizeCall
    /\ moduleBlob = NoModuleBlob
    /\ isAvailable = FALSE
    /\ now = 0
    /\ generationHistory = EmptyMap
    /\ genCalls = [g \in GenCalls |-> IdleGenCall]
    /\ genInvoked = 0

NextHMR ==
    \/ \E p \in PanelIds, s \in JsxSources : UpdateComponentDropped(p, s)
    \/ \E p \in PanelIds, s \in JsxSources : UpdateComponentStart(p, s)
    \/ \E c \in Calls : UpdateComponentCompileFailed(c)
    \/ \E c \in Calls : UpdateComponentRelease(c)
    \/ \E c \in Calls : UpdateComponentLoadFailed(c)
    \/ \E c \in Calls : UpdateComponentStore(c)
    \/ \E p \in PanelIds : RemoveComponent(p)

SpecHMR == Init /\ [][NextHMR]_vars

\* registerPanelFromJSX(id, jsxCode): metadata has its default value {}
RegisterPlain(id, jsxCode) == RegisterStart(id, jsxCode, EmptyMap)

NextRegistry ==
    \/ \E p \in PanelIds, s \in JsxSources : RegisterPlain(p, s)
    \/ \E p \in PanelIds, s \in JsxSources : UpdatePanelNotFound(p, s)
    \/ \E p \in PanelIds, s \in JsxSources : UpdatePanelStart(p, s)
    \/ \E c \in RegCalls : RegisterCompileFailed(c)
    \/ \E c \in RegCalls : RegisterLoadStart(c)
    \/ \E c \in RegCalls : RegisterLoadFailed(c)
    \/ \E c \in RegCalls : RegisterStore(c)
    \/ \E c \in RegCalls : UpdatePanelEmit(c)
    \/ \E p \in PanelIds : RemovePanel(p)
    \/ \E p \in PanelIds : FinalizeComponent(p)

SpecRegistry == Init /\ [][NextRegistry]_vars

\* the registry called with and without metadata while time passes
NextMetadata ==
    \/ Tick
    \/ \E p \in PanelIds, s \in JsxSources, m \in MetadataArgs :
          RegisterStart(p, s, m)
    \/ \E p \in PanelIds, s \in JsxSources : UpdatePanelStart(p, s)
    \/ \E c \in RegCalls : RegisterCompileFailed(c)
    \/ \E c \in RegCalls : RegisterLoadStart(c)
    \/ \E c \in RegCalls : RegisterLoadFailed(c)
    \/ \E c \in RegCalls : RegisterStore(c)
    \/ \E c \in RegCalls : UpdatePanelEmit(c)
    \/ \E p \in PanelIds : RemovePanel(p)

SpecMetadata == Init /\ [][NextMetadata]_vars

\* a generateComponent call of the page
generateComponent(prompt) ==
    /\ genInvoked < MaxGenInvocations
    /\ GenerateStart(prompt)

\* the generator with the service, the validator and the registry calls it
\* makes. No validation result is valid (validateSizeAndComplexity), so that
\* no call registers generated code and resumes in GenAfterRegister; none of
\* the registrations reaches RegisterStore, because the placeholder has a
\* default export (ModuleLoads)
NextGenerator ==
    \/ \E ok \in BOOLEAN : CheckAvailability(ok)
    \/ Tick
    \/ \E prompt \in Prompts : generateComponent(prompt)
    \/ \E g \in GenCalls, reason \in OllamaFailures : OllamaFails(g, reason)
    \/ \E g \in GenCalls, code \in GeneratedCodes : OllamaResponds(g, code)
    \/ \E g \in GenCalls : GenValidated(g)
    \/ \E g \in GenCalls : GenAfterFallback(g)
    \/ \E c \in GenRegCalls : RegisterCompileFailed(c)
    \/ \E c \in GenRegCalls : RegisterLoadStart(c)
    \/ \E c \in GenRegCalls : RegisterLoadFailed(c)

SpecGenerator == Init /\ [][NextGenerator]_vars

\* the same request made again and again within one millisecond, so that
\* every call gets the same panel id; the service is unavailable or times out
RepeatedRequest ==
    /\ genInvoked < MaxRequests
    /\ GenerateStart("todo list")

NextHistory ==
    \/ \E ok \in BOOLEAN : CheckAvailability(ok)
    \/ RepeatedRequest
    \/ \E g \in GenCalls : OllamaFails(g, "TimeoutError: signal timed out")
    \/ \E g \in GenCalls : GenAfterFallback(g)
    \/ \E c \in GenRegCalls : RegisterLoadStart(c)
    \/ \E c \in GenRegCalls : RegisterLoadFailed(c)

SpecHistory == Init /\ [][NextHistory]_vars

NextValidator == \E code \in ValidatorInputs : Validate(code)

SpecValidator == Init /\ [][NextValidator]_vars

\* sanitizeCode as a function of its input
NextSanitizer ==
    \/ \E code \in ValidatorInputs : Sanitize(code)
    \/ SanitizeAgain

SpecSanitizer == Init /\ [][NextSanitizer]_vars

\* createModuleBlob as a function of its arguments
NextModule ==
    \E compiledCode \in CompiledCodes, componentName \in ComponentNames :
        createModuleBlob(compiledCode, componentName)

SpecModule == Init /\ [][NextModule]_vars

\* a suspended call is resumed when its promise settles: the compile promise
\* is already settled, the import always settles
HMRResume ==
    \E c \in Calls :
        \/ UpdateComponentCompileFailed(c)
        \/ UpdateComponentRelease(c)
        \/ UpdateComponentLoadFailed(c)
        \/ UpdateComponentStore(c)

FairSpecHMR == SpecHMR /\ WF_vars(HMRResume)

\* the hot-replacement manager and the registry in one page
SystemBudget == hmrInvoked + regInvoked < MaxSystemInvocations

\* handleManualComponentUpdate: the listener of manual-component-update
handleManualComponentUpdate(panelId, jsxCode) ==
    /\ SystemBudget
    /\ panelId # "" /\ jsxCode # ""
    /\ \/ UpdateComponentStart(panelId, jsxCode)
       \/ UpdateComponentDropped(panelId, jsxCode)

\* a call of the registry by the page
RegistryCall(id, jsxCode) ==
    /\ SystemBudget
    /\ \/ RegisterPlain(id, jsxCode)
       \/ UpdatePanelNotFound(id, jsxCode)
       \/ UpdatePanelStart(id, jsxCode)

NextSystem ==
    \/ \E p \in PanelIds, s \in JsxSources : handleManualComponentUpdate(p, s)
    \/ \E p \in PanelIds, s \in JsxSources : RegistryCall(p, s)
    \/ HMRResume
    \/ \E c \in RegCalls : RegisterCompileFailed(c)
    \/ \E c \in RegCalls : RegisterLoadStart(c)
    \/ \E c \in RegCalls : RegisterLoadFailed(c)
    \/ \E c \in RegCalls : RegisterStore(c)
    \/ \E c \in RegCalls : UpdatePanelEmit(c)
    \/ \E p \in PanelIds : RemovePanel(p)
    \/ \E p \in PanelIds : RemoveComponent(p)
    \/ \E p \in PanelIds : FinalizeComponent(p)

SpecSystem == Init /\ [][NextSystem]_vars

\* ------------------------------------------------------------------------
\* Claims about the hot-replacement manager
\* ------------------------------------------------------------------------

Running(p) == {c \in Calls : hmrCalls[c].pc # "idle" /\ hmrCalls[c].id = p}

NoCallRunning == \A c \in Calls : hmrCalls[c].pc = "idle"

\* C1: for every panel at most one updateComponent call is past the
\* in-flight check (compiling, releasing, loading or storing) at any time.
C1_MutualExclusion == \A p \in PanelIds : Cardinality(Running(p)) <= 1

\* C2: an updateComponent call that arrives while an update for the same
\* panel is in flight changes neither the cache, nor the in-flight set, nor
\* the live module URLs, nor the dispatched events.
C2_DroppedCallHasNoEffect ==
    [][(\E p \in PanelIds, s \in JsxSources : UpdateComponentDropped(p, s))
         => UNCHANGED <<componentCache, updateQueue, liveUrls, events>>]_vars

\* C3: every marker put into updateQueue is eventually cleared, and whenever
\* no updateComponent call is running pendingUpdates is 0 (every panel idle).
C3_MarkerCleared ==
    /\ [](NoCallRunning => (PendingUpdates = 0 /\ updateQueue = {}))
    /\ \A p \in PanelIds : (p \in updateQueue) ~> (p \notin updateQueue)

\* a call marked a panel, failed, and the marker is gone
C3_Witness ==
    /\ NoCallRunning
    /\ updateQueue = {}
    /\ \E i \in DOMAIN events : events[i].type = "panel-hmr-error"
    /\ \E i \in DOMAIN events : events[i].type = "panel-hmr-update"

\* the source makes compileComponent or the import fail
FailingSource(src) ==
    TrimIsEmpty(src) \/ ~BabelTransforms(src) \/ ~ModuleLoads(src)

ExpectedErrorText(src) ==
    IF TrimIsEmpty(src) THEN <<"Compilation failed", "JSX code cannot be empty">>
    ELSE IF ~BabelTransforms(src) THEN <<"Compilation failed", "SyntaxError">>
    ELSE <<"Component loading failed">>

C17_OneUrlPerCompile ==
    /\ [](\A u \in 0..nextUrl :
            /\ u \notin liveUrls => cleanupModuleUrl(liveUrls, u) = liveUrls
            /\ cleanupModuleUrl(cleanupModuleUrl(liveUrls, u), u)
                 = cleanupModuleUrl(liveUrls, u))
    /\ [][\A c \in RegCalls :
            (regCalls[c].pc = "idle" /\ regCalls'[c].pc = "compile")
            => IF regCalls'[c].res.success
               THEN /\ regCalls'[c].res.moduleUrl \notin DOMAIN urlInfo
                    /\ liveUrls' \ liveUrls = {regCalls'[c].res.moduleUrl}
                    /\ DOMAIN urlInfo' =
                          DOMAIN urlInfo \cup {regCalls'[c].res.moduleUrl}
               ELSE /\ liveUrls' \subseteq liveUrls
                    /\ DOMAIN urlInfo' = DOMAIN urlInfo]_vars

\* two compiles have succeeded and the URL cached for a panel is already
\* revoked, so that the next removePanel or updatePanel releases it again
C17_Witness ==
    /\ Cardinality(DOMAIN urlInfo) >= 2
    /\ \E id \in DOMAIN panelCache : panelCache[id].moduleUrl \notin liveUrls

\* the source does not compile
NotCompilable(src) == TrimIsEmpty(src) \/ ~BabelTransforms(src)

\* C18: compileComponent on an empty source, a source of white space or a
\* source that Babel rejects hands its caller a result with success false
\* and the error, instead of throwing, and creates no module URL.
C18_CompileFailureIsResult ==
    [][\A c \in Calls :
         (hmrCalls[c].pc = "idle" /\ hmrCalls'[c].pc # "idle"
            /\ NotCompilable(hmrCalls'[c].src))
         => /\ hmrCalls'[c].pc = "compile"
            /\ ~hmrCalls'[c].res.success
            /\ hmrCalls'[c].res.error \in {"JSX code cannot be empty", "SyntaxError"}
            /\ hmrCalls'[c].res.moduleUrl = 0
            /\ UNCHANGED <<liveUrls, nextUrl, urlInfo>>]_vars

\* a compile of white space and a compile of a source with a syntax error
\* have returned their failure results
C18_Witness ==
    /\ \E c \in Calls : /\ hmrCalls[c].pc = "compile"
                        /\ hmrCalls[c].src = "  "
                        /\ hmrCalls[c].res.error = "JSX code cannot be empty"
    /\ \E c \in Calls : /\ hmrCalls[c].pc = "compile"
                        /\ hmrCalls[c].src = "srcSyntaxError"
                        /\ hmrCalls[c].res.error = "SyntaxError"

\* ------------------------------------------------------------------------
\* Claims about the panel registry
\* ------------------------------------------------------------------------

\* the call in slot c ends successfully in this step
RegistersNow(c) ==
    /\ regCalls[c].pc = "load"
    /\ regCalls'[c].pc # "load"
    /\ regCalls[c].id \in DOMAIN panels'
    /\ panels'[regCalls[c].id].component = regCalls[c].res.moduleUrl

\* C7: when registerPanelFromJSX(id, s2) succeeds on an id that still holds
\* the entry of an earlier registration, the registry has one entry for id
\* with source s2 and the module URL of the earlier entry has been revoked.
C7_ReRegisterReleases ==
    [][\A c \in RegCalls :
         (/\ regCalls[c].kind = "register"
          /\ RegistersNow(c)
          /\ regCalls[c].prev # 0
          /\ CachedUrl(panelCache, regCalls[c].id) = regCalls[c].prev)
         => /\ panels'[regCalls[c].id].jsxCode = regCalls[c].src
            /\ panelCache'[regCalls[c].id].moduleUrl = regCalls[c].res.moduleUrl
            /\ regCalls[c].prev \notin liveUrls']_vars

\* C8: when an updatePanel fails at compile or load, the entry of the panel
\* is the one it had when the update was called: same source, same
\* component, same module URL, and that URL is still live, so that the
\* reader of the entry does not see a revoked reference.
C8_FailedUpdateKeepsEntry ==
    [][\A c \in RegCalls :
         (/\ regCalls[c].kind = "update"
          /\ regCalls[c].pc # "idle"
          /\ regCalls'[c].pc = "idle"
          /\ regCalls'[c].outcome \in {"CompileError", "LoadError"}
          /\ regCalls[c].id \in DOMAIN panels
          /\ CachedUrl(panelCache, regCalls[c].id) = regCalls[c].prev)
         => /\ panels'[regCalls[c].id] = panels[regCalls[c].id]
            /\ panelCache'[regCalls[c].id] = panelCache[regCalls[c].id]
            /\ panelCache'[regCalls[c].id].moduleUrl \in liveUrls']_vars

ExpectedOutcome(src) ==
    IF TrimIsEmpty(src) \/ ~BabelTransforms(src) THEN "CompileError"
    ELSE "LoadError"

\* C9: no step of a registerPanelFromJSX whose compilation or import fails
\* changes panels or the registry's componentCache, and the call ends by
\* throwing the error to its caller.
C9_RegisterAllOrNothing ==
    [][\A c \in RegCalls :
         /\ (regCalls[c].pc = "idle" /\ regCalls'[c].pc # "idle"
                /\ FailingSource(regCalls'[c].src))
              => (panels' = panels /\ panelCache' = panelCache)
         /\ (regCalls[c].pc # "idle" /\ FailingSource(regCalls[c].src)
                /\ regCalls'[c] # regCalls[c])
              => /\ panels' = panels
                 /\ panelCache' = panelCache
                 /\ regCalls'[c].pc = "idle"
                      => regCalls'[c].outcome = ExpectedOutcome(regCalls[c].src)
                 /\ regCalls[c].pc = "load" => regCalls'[c].pc = "idle"]_vars

\* a registration failed at the import and one at compile while the
\* registry held a panel
C9_Witness ==
    /\ \E c \in RegCalls : regCalls[c].outcome = "LoadError"
    /\ \E c \in RegCalls : regCalls[c].outcome = "CompileError"
    /\ panels # EmptyMap

\* C10: no two live module URLs created by the same component (registry or
\* hot-replacement manager) belong to the same panel.
C10_SingleOwner ==
    \A u1 \in liveUrls, u2 \in liveUrls :
        (urlInfo[u1] = urlInfo[u2]) => u1 = u2

\* C12: panels and the registry's componentCache hold the same ids (so that
\* totalPanels equals cachedComponents), one entry each, and for every id
\* the component and the compiled code of the panel definition are those of
\* the cache entry, the component is the one loaded from the entry's module
\* URL, and that URL was created by the compile of the definition's source
\* for this id.
C12_EntryAndCacheInSync ==
    /\ DOMAIN panels = DOMAIN panelCache
    /\ getStats.totalPanels = getStats.cachedComponents
    /\ \A id \in DOMAIN panels :
          /\ panels[id].id = id
          /\ panels[id].component = panelCache[id].component
          /\ panels[id].compiledCode = panelCache[id].compiledCode
          /\ panelCache[id].component = panelCache[id].moduleUrl
          /\ panels[id].compiledCode = BabelCode(panels[id].jsxCode)
          /\ urlInfo[panelCache[id].moduleUrl] = [panel |-> id, by |-> "registry"]

\* p1 was registered, updated, removed and registered again
C12_Witness ==
    /\ "p1" \in DOMAIN panels
    /\ panelCache["p1"].moduleUrl = 3
    /\ liveUrls = {3}
    /\ \A u \in 1..3 : urlInfo[u].panel = "p1"

\* C14: a step that deletes the entry of an existing id (removePanel) leaves
\* neither a panel definition nor a cached component for id, revokes the
\* module URL of the entry and nothing else, and changes no entry of another
\* id; removePanel on an id without entry changes nothing.
C14_RemoveFrame ==
    [][\A id \in PanelIds :
         /\ (id \in DOMAIN panels /\ RemovePanel(id))
              => /\ id \notin DOMAIN panels'
                 /\ id \notin DOMAIN panelCache'
                 /\ panelCache[id].moduleUrl \notin liveUrls'
                 /\ liveUrls' = liveUrls \ {panelCache[id].moduleUrl}
                 /\ \A q \in PanelIds \ {id} :
                       /\ q \in DOMAIN panels <=> q \in DOMAIN panels'
                       /\ q \in DOMAIN panels =>
                             /\ panels'[q] = panels[q]
                             /\ panelCache'[q] = panelCache[q]
                 /\ UNCHANGED <<events, regCalls, notFound>>
         /\ (id \notin DOMAIN panels /\ RemovePanel(id)) => UNCHANGED vars]_vars

\* p1 and p2 were registered and p1 was removed: its URL is revoked, the
\* entry and the URL of p2 are in place
C14_Witness ==
    /\ regInvoked = 2
    /\ DOMAIN panels = {"p2"}
    /\ \E u \in DOMAIN urlInfo : urlInfo[u].panel = "p1" /\ u \notin liveUrls
    /\ liveUrls = {panelCache["p2"].moduleUrl}

\* an invocation of updatePanel(id, jsxCode)
UpdatePanelCall(id, jsxCode) ==
    UpdatePanelNotFound(id, jsxCode) \/ UpdatePanelStart(id, jsxCode)

\* C15: updatePanel on an id without panel definition throws `Panel id not
\* found` and does nothing else: no compile (no module URL is created), no
\* URL is revoked, no entry appears, no call is left suspended and no event
\* is dispatched.
C15_UpdateNotFound ==
    [][\A id \in PanelIds, s \in JsxSources :
         (id \notin DOMAIN panels /\ UpdatePanelCall(id, s))
         => /\ id \in notFound'
            /\ UNCHANGED <<panels, panelCache, regCalls, finalizers, liveUrls,
                           nextUrl, urlInfo, events>>]_vars

\* p1 is registered and an updatePanel of p2 has thrown
C15_Witness ==
    /\ "p2" \in notFound
    /\ DOMAIN panels = {"p1"}
    /\ regInvoked = 2
    /\ liveUrls = {1}

\* C16: an updatePanel call dispatches one panel-hmr-update event, with the
\* id and the new source, in the step in which it returns, and that step
\* comes after the step that stored the new panel definition and cache
\* entry; no other step of the call dispatches an event, so an updatePanel
\* that fails dispatches none; the registry dispatches no other event.
C16_UpdateEmitsOnce ==
    [][/\ \A c \in RegCalls :
            /\ (regCalls'[c] # regCalls[c]
                   /\ "update" \in {regCalls[c].kind, regCalls'[c].kind})
                 => IF regCalls'[c].pc = "idle" /\ regCalls'[c].outcome = "ok"
                    THEN /\ regCalls[c].pc = "emit"
                         /\ events' = Append(events,
                                [type |-> "panel-hmr-update",
                                 panelId |-> regCalls[c].id,
                                 jsxCode |-> regCalls[c].src,
                                 error |-> <<>>])
                    ELSE events' = events
            /\ (regCalls[c].pc # "emit" /\ regCalls'[c].pc = "emit")
                 => /\ regCalls[c].kind = "update"
                    /\ panels'[regCalls[c].id].jsxCode = regCalls[c].src
                    /\ panels'[regCalls[c].id].component = regCalls[c].res.moduleUrl
                    /\ panelCache'[regCalls[c].id].moduleUrl = regCalls[c].res.moduleUrl
       /\ events' # events
            => \E c \in RegCalls : regCalls[c].pc = "emit" /\ regCalls'[c].pc = "idle"]_vars

\* p1 was registered, one updatePanel of p1 succeeded and one failed: one
\* event has been dispatched
C16_Witness ==
    /\ regInvoked = 3
    /\ \A c \in RegCalls : regCalls[c].pc = "idle"
    /\ \E c \in RegCalls : regCalls[c].outcome \in {"CompileError", "LoadError"}
    /\ events = <<Event("panel-hmr-update", "p1", "srcB", <<>>)>>
    /\ panels["p1"].jsxCode = "srcB"

\* the explicit operations that release the module URL of panel p
ReleasingOperation(p) ==
    \/ \E s \in JsxSources : UpdatePanelStart(p, s)
    \/ RemovePanel(p)
    \/ \E c \in Calls : hmrCalls[c].id = p /\ UpdateComponentRelease(c)
    \/ RemoveComponent(p)

\* C11: a module URL is revoked only in a step of an update or remove
\* operation on the panel the URL was created for; no step of the garbage
\* collector revokes a module URL.
C11_ReleaseOnlyByOperation ==
    [][\A u \in liveUrls \ liveUrls' : ReleasingOperation(urlInfo[u].panel)]_vars

\* ------------------------------------------------------------------------
\* Claims about the hot-replacement manager and the registry together
\* ------------------------------------------------------------------------

\* no updateComponent and no registry call for p is in flight
NothingInFlight(p) ==
    /\ p \notin updateQueue
    /\ Running(p) = {}
    /\ \A c \in RegCalls : regCalls[c].pc # "idle" => regCalls[c].id # p

\* C13: whenever no update of a panel is in flight, the hot-replacement
\* manager has a cached component for the panel only if the registry has a
\* panel definition for it.
C13_CacheDerivedFromRegistry ==
    \A p \in PanelIds :
        (NothingInFlight(p) /\ p \in DOMAIN componentCache) => p \in DOMAIN panels

\* ------------------------------------------------------------------------
\* Claims about the generator
\* ------------------------------------------------------------------------

\* the generateComponent call of slot g has ended
Ended(g) == genCalls[g].pc = "idle" /\ genCalls[g].outcome # "none"

\* C19: every generateComponent call that has ended has returned a result,
\* and the panel id of the result has a panel definition in the registry;
\* no call ends by throwing.
C19_AlwaysRenderable ==
    \A g \in GenCalls :
        Ended(g) => /\ genCalls[g].outcome = "returned"
                    /\ genCalls[g].result.panelId \in DOMAIN panels

\* the attempts recorded for a panel id
History(panelId) ==
    IF panelId \in DOMAIN generationHistory
    THEN generationHistory[panelId] ELSE <<>>

UsedIds ==
    DOMAIN generationHistory
    \cup ({genCalls[g].panelId : g \in GenCalls} \ {NoPanel})

\* C22: every generateComponent call gets a panel id that no earlier call
\* has got, also when the prompt is the same and the clock has not advanced.
C22_UniqueIdentities ==
    [][\A prompt \in Prompts :
          GenerateStart(prompt) => generatePanelId(prompt, now) \notin UsedIds]_vars

\* the call records an attempt in this step: it enters its catch block, or
\* its registration of generated code has succeeded
Records(g) ==
    \/ genCalls[g].pc # "fallback" /\ genCalls'[g].pc = "fallback"
    \/ genCalls[g].pc = "register" /\ genCalls'[g].pc = "idle"

\* C23: the history of a panel id never has more than 10 attempts; a call
\* that records an attempt appends it at the end of the history of its panel
\* id and, when that makes 11, the oldest is dropped, so that the history is
\* the last 10 in recording order; nothing else changes a history.
C23_HistoryCapped ==
    [][/\ \A id \in DOMAIN generationHistory' :
             Len(generationHistory'[id]) <= 10
       /\ \A g \in GenCalls :
             Records(g) =>
                generationHistory'[genCalls'[g].panelId] =
                   LastOf(Append(History(genCalls'[g].panelId),
                                 genCalls'[g].recorded[Len(genCalls'[g].recorded)]),
                          10)
       /\ \A id \in DOMAIN generationHistory' :
             (\A g \in GenCalls : Records(g) => genCalls'[g].panelId # id)
                => generationHistory'[id] = History(id)]_vars

\* eleven calls have recorded an attempt under one panel id, the first
\* after a timeout and the last for the unavailable service; the history
\* holds ten attempts, and its oldest is no longer the first one recorded
C23_Witness ==
    /\ genInvoked = 11
    /\ \A g \in GenCalls : genCalls[g].pc = "idle"
    /\ \E id \in DOMAIN generationHistory :
          /\ Len(generationHistory[id]) = 10
          /\ generationHistory[id][1].error = NotAvailableMessage
          /\ generationHistory[id][2].error # NotAvailableMessage
          /\ generationHistory[id][10].error = NotAvailableMessage

\* the validator has rejected the code of the call
Rejected(g) ==
    /\ genCalls[g].pc \notin {"idle", "ollama"} \/ Ended(g)
    /\ genCalls[g].validation.errors # <<>>

\* C24: the source of every registration the generator has started is the
\* sanitized code of a validation result that is valid, or the placeholder;
\* a call whose code the validator has rejected registers the placeholder
\* only, and the error it caught and recorded is "Code validation failed: "
\* followed by the errors of the validation result joined by ", ".
C24_RejectedNeverRegistered ==
    \A g \in GenCalls :
        /\ regCalls[GenSlot(g)].pc # "idle" =>
              \/ /\ genCalls[g].validation.isValid
                 /\ regCalls[GenSlot(g)].src =
                       Text(genCalls[g].validation.sanitizedCode)
              \/ regCalls[GenSlot(g)].src =
                    createFallbackComponent(genCalls[g].prompt, genCalls[g].error)
        /\ (Rejected(g) /\ genCalls[g].pc # "validate") =>
              /\ Len(genCalls[g].recorded) = 1
              /\ ~genCalls[g].recorded[1].success
              /\ genCalls[g].recorded[1].error =
                    "Code validation failed: "
                    \o Join(genCalls[g].validation.errors, ", ")
              /\ genCalls[g].pc = "fallback" =>
                    genCalls[g].error = "Code validation failed: "
                        \o Join(genCalls[g].validation.errors, ", ")
              /\ genCalls[g].panelId \notin DOMAIN panels

\* the validator has rejected the code of a call, and the call has caught
\* the error and is registering the placeholder
C24_Witness ==
    \E g \in GenCalls :
        /\ Rejected(g)
        /\ genCalls[g].pc = "fallback"
        /\ regCalls[GenSlot(g)].pc # "idle"
        /\ regCalls[GenSlot(g)].src =
              createFallbackComponent(genCalls[g].prompt,
                  "Code validation failed: "
                  \o Join(genCalls[g].validation.errors, ", "))

\* ------------------------------------------------------------------------
\* Claims about the validator
\* ------------------------------------------------------------------------

\* C5: two validateJSX calls in a row on the same input return the same
\* accept/reject outcome and the same errors and warnings, whatever calls
\* were made on the validator before.
C5_ValidatePure ==
    \A i \in DOMAIN valLog, j \in DOMAIN valLog :
        valLog[i].code = valLog[j].code => valLog[i].result = valLog[j].result

\* the deny-list patterns that match somewhere in the source
MatchingPatterns(code) ==
    {i \in 1..NumPatterns : \E k \in DOMAIN code : i \in PatternsIn(code[k])}

\* the same source with a deny-list match has been validated twice in a row,
\* and the second call's test of a matching pattern started behind the match
C5_Witness ==
    /\ Len(valLog) = 2
    /\ valLog[1].code = valLog[2].code
    /\ \E i \in MatchingPatterns(valLog[2].code) : lastIndex[i] = 0

Names(errors, i) ==
    \E e \in DOMAIN errors :
        errors[e] = "Forbidden pattern detected: " \o ForbiddenPatterns[i]

\* C6: every validateJSX call on a source in which a deny-list pattern
\* matches rejects it, with an error entry for each pattern that matches.
C6_ForbiddenRejected ==
    \A n \in DOMAIN valLog :
        MatchingPatterns(valLog[n].code) # {} =>
            /\ ~valLog[n].result.isValid
            /\ \A i \in MatchingPatterns(valLog[n].code) :
                   Names(valLog[n].result.errors, i)

\* the result of the validateJSX call made in this step
LastResult == valLog'[Len(valLog')].result

\* C25: a validateJSX call rejects exactly when a check that pushes errors
\* has pushed one; the rejected result has the errors of these checks, in
\* the order of the checks, and no sanitized code; the accepted result has
\* no errors and has sanitized code.
C25_RejectedIffHardCheckFailed ==
    [][\A code \in ValidatorInputs :
          Validate(code) =>
             /\ LastResult.isValid <=> ValidationErrors(code, lastIndex) = <<>>
             /\ ~LastResult.isValid =>
                   /\ LastResult.errors = ValidationErrors(code, lastIndex)
                   /\ LastResult.sanitizedCode = <<>>
             /\ LastResult.isValid =>
                   /\ LastResult.errors = <<>>
                   /\ LastResult.sanitizedCode # <<>>]_vars

\* the source passes the structural bounds, the scan for forbidden patterns
\* and the import allow-list
PassesHardChecks(code) ==
    /\ validateBasicStructure(code) = <<>>
    /\ MatchingPatterns(code) = {}
    /\ validateImports(code) = <<>>

\* C26: every validateJSX call on a source that passes the structural
\* bounds, the scan for forbidden patterns and the import allow-list accepts
\* it, whatever the checks of the component shape and of size and complexity
\* find.
C26_SoftChecksNeverReject ==
    \A n \in DOMAIN valLog :
        PassesHardChecks(valLog[n].code) => valLog[n].result.isValid

\* the source has an import of a relative target and no other import that
\* is not allowed
OnlyRelativeImportIssue(code) ==
    /\ Contains(code, {"import helper from './helper';"})
    /\ ~Contains(code, {"import fs from 'fs';", "import { readFile } from 'fs';",
                        "import 'fs';", "import {\n  readFile\n} from 'fs';"})
    /\ validateBasicStructure(code) = <<>>
    /\ MatchingPatterns(code) = {}

\* C27: a validateJSX call on a source whose only import issue is a relative
\* import accepts it, with a warning that names the import.
C27_RelativeImportWarned ==
    \A n \in DOMAIN valLog :
        OnlyRelativeImportIssue(valLog[n].code) =>
            /\ valLog[n].result.isValid
            /\ \E w \in DOMAIN valLog[n].result.warnings :
                  valLog[n].result.warnings[w] =
                     "Relative import detected: ./helper"

\* C28: every validateJSX call on a source that imports fs, which is not on
\* the allow-list, as default import, named import, named import on several
\* lines or side-effect import, rejects it with an error that names fs.
C28_UnauthorizedImportRejected ==
    \A n \in DOMAIN valLog :
        Contains(valLog[n].code,
                 {"import fs from 'fs';", "import { readFile } from 'fs';",
                  "import 'fs';", "import {\n  readFile\n} from 'fs';"}) =>
            /\ ~valLog[n].result.isValid
            /\ \E e \in DOMAIN valLog[n].result.errors :
                  valLog[n].result.errors[e] = "Unauthorized import: fs"

\* the lines that are a failure-isolation wrapper
Wrappers ==
    {SafeComponent("OriginalPanel"), SafeComponent("OriginalSafeComponent")}

\* the number of failure-isolation wrappers in the code
WrapperCount(code) == Cardinality({k \in DOMAIN code : code[k] \in Wrappers})

\* C29: sanitizeCode applied to code that has one failure-isolation wrapper
\* returns code that has one wrapper.
C29_SanitizeIdempotent ==
    WrapperCount(sanitizer.code) = 1 => WrapperCount(sanitizer.sanitized) = 1

\* the lines of the component definition: everything but the statement that
\* exports a name
Definition(code) == SelectSeq(code, LAMBDA tok : ExportedName(tok) = "")

\* code ends with tail
EndsWith(code, tail) ==
    /\ Len(tail) <= Len(code)
    /\ SubSeq(code, Len(code) - Len(tail) + 1, Len(code)) = tail

\* C30: for a source that passes all checks that push errors, with its
\* default export as a statement of its own or inline, the code sanitizeCode
\* returns has a failure-isolation wrapper and still has the lines of the
\* definition, unchanged and in order, with the exported name Panel.
C30_SanitizedKeepsDefinition ==
    (/\ sanitizer.depth = 1
     /\ ValidationErrors(sanitizer.code, [i \in 1..NumPatterns |-> 0]) = <<>>)
        => /\ WrapperCount(sanitizer.sanitized) = 1
           /\ EndsWith(SelectSeq(sanitizer.sanitized,
                                 LAMBDA tok : tok \notin Wrappers
                                     /\ tok # "const OriginalPanel = Panel;"
                                     /\ ExportedName(tok) = ""),
                       Definition(sanitizer.code))

\* ------------------------------------------------------------------------
\* Claims about the order of steps and about overlapping calls
\* ------------------------------------------------------------------------

\* the step dispatches panel-hmr-update for panel p
EmitsUpdate(p) ==
    /\ Len(events') = Len(events) + 1
    /\ events'[Len(events')].type = "panel-hmr-update"
    /\ events'[Len(events')].panelId = p

\* C31: when updateComponent dispatches panel-hmr-update for a panel,
\* getComponent(panel) already returns the entry of the call that dispatches
\* (its component and its module URL, which is live), and the module URL that
\* was cached for the panel before the entry was stored has been revoked.
C31_EventAfterStoreAndRelease ==
    [][\A c \in Calls :
         (hmrCalls[c].pc = "load" /\ hmrCalls'[c].pc = "idle"
            /\ EmitsUpdate(hmrCalls[c].id))
         => /\ hmrCalls[c].id \in DOMAIN componentCache'
            /\ componentCache'[hmrCalls[c].id] = CacheEntry(hmrCalls[c].res)
            /\ hmrCalls[c].res.moduleUrl \in liveUrls'
            /\ hmrCalls[c].id \in DOMAIN componentCache
                 => componentCache[hmrCalls[c].id].moduleUrl \notin liveUrls']_vars

\* ------------------------------------------------------------------------
\* Claims about the module text
\* ------------------------------------------------------------------------

\* C32: for every componentName the callers pass, the module made by
\* createModuleBlob has as its default export a binding that the compiled
\* code declares, whenever the code declares one that the name matching
\* looks for (Component, or the componentName itself); the placeholder is
\* the default export only when the code declares no such binding.
C32_ExportsDeclaredComponent ==
    moduleBlob.componentName # <<>>
        => /\ ("Component" \in moduleBlob.compiledCode.declares
                  \/ (Len(moduleBlob.componentName) = 1
                        /\ moduleBlob.componentName[1]
                              \in moduleBlob.compiledCode.declares))
                => moduleBlob.default \in moduleBlob.compiledCode.declares
           /\ moduleBlob.default = "placeholder"
                => "Component" \notin moduleBlob.compiledCode.declares

\* ------------------------------------------------------------------------
\* Claims about the list and the metadata of the registry
\* ------------------------------------------------------------------------

\* the ids of keys that are in the set ids, in the order of keys
Restricted(keys, ids) == SelectSeq(keys, LAMBDA x : x \in ids)

\* C33: listPanels returns every registered id once; a step that keeps an id
\* registered (a second registration or an update of it included) keeps its
\* place relative to the other ids, and an id that becomes registered, for
\* the first time or after it was removed, is the last of the list.
C33_ListInInsertionOrder ==
    /\ [](/\ {listPanels[i] : i \in DOMAIN listPanels} = DOMAIN panels
          /\ Len(listPanels) = Cardinality(DOMAIN panels))
    /\ [][/\ Restricted(listPanels', DOMAIN panels)
               = Restricted(listPanels, DOMAIN panels')
           /\ \A id \in DOMAIN panels' \ DOMAIN panels :
                 listPanels'[Len(listPanels')] = id]_vars

\* p1 was registered before p2, removed and registered again: it is listed
\* after p2
C33_Witness ==
    /\ listPanels = <<"p2", "p1">>
    /\ panels["p1"].component > panels["p2"].component
    /\ \E r \in finalizers :
          r.id = "p1" /\ r.component < panels["p2"].component

\* the value of an optional field: <<v>>, or <<>> when the key is absent
Field(metadata, key) ==
    IF key \in DOMAIN metadata THEN <<metadata[key]>> ELSE <<>>

\* call c is an updatePanel whose registerPanelFromJSX stores the panel in
\* this step
UpdateStores(c) ==
    /\ regCalls[c].kind = "update"
    /\ regCalls[c].pc = "load"
    /\ regCalls'[c].pc = "emit"

\* C34: when an updatePanel stores the panel, the entry's createdAt, creator,
\* tags and description are those the entry had when updatePanel was called,
\* and its updatedAt is not earlier than the updatedAt it had then.
C34_UpdateKeepsMetadata ==
    [][\A c \in RegCalls :
         UpdateStores(c)
         => LET before == regCalls[c].existing
                after == panels'[regCalls[c].id].metadata
            IN  /\ \A key \in {"createdAt", "creator", "tags", "description"} :
                      Field(after, key) = Field(before, key)
                /\ after.updatedAt >= before.updatedAt]_vars

\* a panel registered by the page with tags and a description has been
\* updated a millisecond later, and the update has dispatched its event
C34_Witness ==
    \E id \in DOMAIN panels :
        /\ panels[id].metadata.updatedAt > panels[id].metadata.createdAt
        /\ panels[id].metadata.creator = "user"
        /\ Field(panels[id].metadata, "tags") = <<(<<"chart">>)>>
        /\ \E i \in DOMAIN events :
              events[i].type = "panel-hmr-update" /\ events[i].panelId = id

\* C39: the dependencies in the metadata of every panel are the import
\* targets that extractDependencies finds in the panel's current jsxCode.
C39_DependenciesFollowSource ==
    \A id \in DOMAIN panels :
        panels[id].metadata.dependencies
            = extractDependencies(panels[id].jsxCode)

\* ------------------------------------------------------------------------
\* Claims about module URLs, removal and overlapping calls
\* ------------------------------------------------------------------------

\* C35: whenever no updateComponent call for a panel is running (and the
\* panel is not in updateQueue), the module URL of the panel's entry in the
\* manager's componentCache is live, also after an update whose compile
\* succeeded and whose import failed.
C35_CachedUrlLive ==
    \A p \in DOMAIN componentCache :
        (Running(p) = {} /\ p \notin updateQueue)
            => componentCache[p].moduleUrl \in liveUrls

\* the module URL is the one of an entry of the registry's or of the
\* manager's componentCache
HeldByCache(url) ==
    \/ \E id \in DOMAIN panelCache : panelCache[id].moduleUrl = url
    \/ \E p \in DOMAIN componentCache : componentCache[p].moduleUrl = url

\* no registerPanelFromJSX, updatePanel or updateComponent call is suspended
Quiescent ==
    /\ \A c \in Calls : hmrCalls[c].pc = "idle"
    /\ \A c \in AllRegCalls : regCalls[c].pc = "idle"

\* C36: when the import of a registerPanelFromJSX, updatePanel or
\* updateComponent call fails, the module URL its compile created is revoked
\* when the call ends; and when no call is suspended every live module URL
\* is the URL of a cache entry of the registry or of the manager.
C36_NoLeakOnLoadFailure ==
    /\ [][/\ (\A c \in Calls :
                (hmrCalls[c].pc = "load" /\ hmrCalls'[c].pc = "idle"
                   /\ componentCache' = componentCache)
                => hmrCalls[c].res.moduleUrl \notin liveUrls')
           /\ (\A r \in RegCalls :
                (regCalls[r].pc = "load" /\ regCalls'[r].pc = "idle"
                   /\ regCalls'[r].outcome = "LoadError")
                => regCalls[r].res.moduleUrl \notin liveUrls')]_vars
    /\ [](Quiescent => \A url \in liveUrls : HeldByCache(url))

\* call c stores its panel in this step
Stores(c) ==
    /\ regCalls[c].pc = "load"
    /\ regCalls'[c].pc # "load"
    /\ regCalls'[c].outcome # "LoadError"

\* the panel of call c had an entry when the call was made: updatePanel
\* throws otherwise, and prev is the URL cached for the panel at that time
IssuedOnEntry(c) == regCalls[c].kind = "update" \/ regCalls[c].prev # 0

\* C37: a registry call that was made while its panel had an entry does not
\* store the panel when the entry is gone, that is, when removePanel has run
\* while the call was suspended at its compile or at its import: the panel
\* stays absent until a call made after the removal stores it.
C37_RemovalIsFinal ==
    [][\A c \in RegCalls :
         (Stores(c) /\ IssuedOnEntry(c))
         => regCalls[c].id \in DOMAIN panels]_vars

\* C38: module URLs are handed out in the order in which the calls are
\* made, so that of two calls for one panel the one with the greater URL was
\* made last. A registry call never replaces the entry that a call made
\* after it has stored: when overlapping calls for a panel have completed,
\* the panel has the source, the component and the URL of the call made
\* last.
C38_LastIssuedWins ==
    [][\A c \in RegCalls :
         (Stores(c) /\ regCalls[c].id \in DOMAIN panels)
         => panels[regCalls[c].id].component < regCalls[c].res.moduleUrl]_vars

====
